---- MODULE Spec2Model ----
(***************************************************************************)
(* Vision Lab simulation kernel: the zustand scene store (objects, paths,  *)
(* simulation, collisions) and the per-frame systems that react-three-     *)
(* fiber runs once per rendered frame (RobotMovementSystem, CameraSystem,  *)
(* GripperSystem, CollisionDetector), with the path, progress, end-        *)
(* effector, bounding-box and collision utilities they call.               *)
(*                                                                         *)
(* Numbers.  The program computes in IEEE-754 binary floating point, and   *)
(* several of its results depend on rounding (1/3 and 1/5 are not binary   *)
(* fractions).  A number is modelled as a binary floating-point value with *)
(* round-to-nearest-even after every operation, exactly as the program's   *)
(* arithmetic, at a significand of SigBits bits instead of 53 (SigBits and *)
(* 53 leave the same remainder modulo 4, so 1/3 rounds down and 1/5 rounds *)
(* up as they do in double precision).  A value x is held as the integer   *)
(* x * 2^GridBits, and NaN as an integer no number of the model reaches:   *)
(* every arithmetic operation on NaN gives NaN and every comparison with   *)
(* NaN is false, as in the program.                                        *)
(***************************************************************************)
EXTENDS Integers, Sequences, FiniteSets, TLC

SigBits == 9
GridBits == 20
One == 2^GridBits
NaN == -(2^30)

Abs(x) == IF x < 0 THEN -x ELSE x
Sign(x) == IF x < 0 THEN -1 ELSE 1
Max(a, b) == IF a >= b THEN a ELSE b
Min(a, b) == IF a <= b THEN a ELSE b

\* The number of binary digits of n, 0 <= n < 2^32.
BitLenTable == << 0, 1, 2, 2, 3, 3, 3, 3, 4, 4, 4, 4, 4, 4, 4, 4 >>
BitLen8(n) == IF n < 16 THEN BitLenTable[n + 1] ELSE 4 + BitLenTable[n \div 16 + 1]
BitLen16(n) == IF n < 256 THEN BitLen8(n) ELSE 8 + BitLen8(n \div 256)
BitLen(n) == IF n < 65536 THEN BitLen16(n) ELSE 16 + BitLen16(n \div 65536)

\* q / 2^s rounded to the nearest integer, ties to even; sticky: a nonzero
\* remainder was already dropped below q.
RoundShift(q, sticky, s) ==
  IF s <= 0 THEN q * 2^(-s)
  ELSE IF s > 30 THEN 0
  ELSE LET m == q \div 2^s
           r == q % 2^s
           half == 2^(s - 1)
       IN IF r > half \/ (r = half /\ (sticky \/ m % 2 = 1)) THEN m + 1 ELSE m

\* q * 2^e grid units rounded at the digit of weight 2^u.
RoundTo(q, sticky, e, u) == RoundShift(q, sticky, u - e) * 2^u
\* q * 2^e grid units rounded to SigBits significant digits.
RoundQuotient(q, sticky, e) == RoundTo(q, sticky, e, Max(BitLen(q) - SigBits + e, 0))
\* (n / d) * 2^k from the quotient carried to j extra digits.
RoundAt(n, d, k, j) == RoundQuotient((n * 2^j) \div d, (n * 2^j) % d # 0, k - j)
\* The representable value nearest to (n / d) * 2^k grid units (n >= 0, d > 0).
RoundScaled(n, d, k) ==
  RoundAt(n, d, k, IF n = 0 THEN 0 ELSE Max(SigBits + 2 + BitLen(d) - BitLen(n), 0))

Expo(a) == Max(BitLen(a) - SigBits, 0)
Mant(a) == a \div 2^Expo(a)

\* A numeric literal n/d of the source, rounded as the parser rounds it.
Lit(n, d) == Sign(n) * RoundScaled(Abs(n), d, GridBits)

\* The representable value nearest to a >= 0 grid units.
RoundInt(a) ==
  IF a < 2^SigBits THEN a
  ELSE LET e == BitLen(a) - SigBits IN RoundShift(a, FALSE, e) * 2^e

\* Adding 0 is exact.
FAdd(x, y) ==
  IF x = NaN \/ y = NaN THEN NaN
  ELSE IF y = 0 THEN x
  ELSE IF x = 0 THEN y
  ELSE LET s == x + y IN IF s < 0 THEN -RoundInt(-s) ELSE RoundInt(s)
FSub(x, y) ==
  IF x = NaN \/ y = NaN THEN NaN
  ELSE LET s == x - y IN IF s < 0 THEN -RoundInt(-s) ELSE RoundInt(s)
\* The product of a >= 0 and b >= 0 from their significands and exponents.
MulScaled(a, b, ea, eb) ==
  RoundQuotient((a \div 2^ea) * (b \div 2^eb), FALSE, ea + eb - GridBits)
\* Multiplying by 1, -1 or 0 and halving an even number of grid units are
\* exact.
FMul(x, y) ==
  IF x = NaN \/ y = NaN THEN NaN
  ELSE IF y = One THEN x
  ELSE IF x = One THEN y
  ELSE IF x = 0 \/ y = 0 THEN 0
  ELSE IF x = -One THEN -y
  ELSE IF y = -One THEN -x
  ELSE Sign(x) * Sign(y) * MulScaled(Abs(x), Abs(y), Expo(Abs(x)), Expo(Abs(y)))
\* The divisors of the program are never 0.
FDiv(x, y) ==
  IF x = NaN \/ y = NaN THEN NaN
  ELSE IF y = 2 * One /\ x % 2 = 0 THEN x \div 2
  ELSE Sign(x) * Sign(y)
         * RoundScaled(Mant(Abs(x)), Mant(Abs(y)), Expo(Abs(x)) - Expo(Abs(y)) + GridBits)
\* JavaScript %: the remainder is exact and takes the sign of the dividend.
FMod(x, y) == IF x = NaN \/ y = NaN THEN NaN ELSE Sign(x) * (Abs(x) % Abs(y))
\* < <= >= > on numbers
FLt(x, y) == x # NaN /\ y # NaN /\ x < y
FLe(x, y) == x # NaN /\ y # NaN /\ x <= y
FGe(x, y) == x # NaN /\ y # NaN /\ x >= y
FGt(x, y) == x # NaN /\ y # NaN /\ x > y
\* Math.floor of a number that is not NaN, as an integer.
Floor(x) == x \div One
\* JavaScript % on integers (array indices).
IMod(a, n) == Sign(a) * (Abs(a) % n)

(***************************************************************************)
(* Program constants                                                       *)
(***************************************************************************)
NoId == "null"
\* Math.PI; 355/113 and pi round to the same value at SigBits bits.
Pi == Lit(355, 113)
Two == 2 * One
Half == Lit(1, 2)
MinSpeed == Lit(1, 10)
MaxSpeed == 5 * One

\* transformUtils.createVector3
createVector3(x, y, z) == [x |-> x, y |-> y, z |-> z]
ZeroVec == createVector3(0, 0, 0)
UnitScale == createVector3(One, One, One)
DefaultEndEffectorOffset == createVector3(0, Lit(3, 4), 0)

\* Math.max / Math.min on numbers
MathMax(a, b) == IF a = NaN \/ b = NaN THEN NaN ELSE IF a >= b THEN a ELSE b
MathMin(a, b) == IF a = NaN \/ b = NaN THEN NaN ELSE IF a <= b THEN a ELSE b

(***************************************************************************)
(* transformUtils: interpolation primitives                                *)
(***************************************************************************)
lerpVector3(start, end, t) ==
  [x |-> FAdd(start.x, FMul(FSub(end.x, start.x), t)),
   y |-> FAdd(start.y, FMul(FSub(end.y, start.y), t)),
   z |-> FAdd(start.z, FMul(FSub(end.z, start.z), t))]

TwoPi == FMul(Two, Pi)
\* if (diff > Math.PI) diff -= 2 * Math.PI
wrapAbovePi(diff) == IF FGt(diff, Pi) THEN FSub(diff, TwoPi) ELSE diff
\* if (diff < -Math.PI) diff += 2 * Math.PI
wrapBelowMinusPi(diff) == IF FLt(diff, -Pi) THEN FAdd(diff, TwoPi) ELSE diff
lerpAngle(start, end, t) ==
  FAdd(start, FMul(wrapBelowMinusPi(wrapAbovePi(FSub(end, start))), t))

lerpRotation(start, end, t) ==
  [x |-> lerpAngle(start.x, end.x, t),
   y |-> lerpAngle(start.y, end.y, t),
   z |-> lerpAngle(start.z, end.z, t)]

(***************************************************************************)
(* pathUtils.interpolatePath.  The result carries err = "none" on a normal *)
(* return; err = "Error" is the thrown Error for an empty path, and        *)
(* err = "TypeError" a property read on an undefined array element         *)
(* (waypoints[i] is undefined for a negative or NaN index i).              *)
(***************************************************************************)
Thrown(e) == [err |-> e, position |-> ZeroVec, rotation |-> ZeroVec]

\* interpolatePath's return statement.
interpolateBetween(start, end, segmentProgress) ==
  [err |-> "none",
   position |-> lerpVector3(start.position, end.position, segmentProgress),
   rotation |-> lerpRotation(start.rotation, end.rotation, segmentProgress)]

\* interpolatePath from "Get waypoints for current segment" on.
interpolateFrom(path, startIndex, endIndex, segmentProgress) ==
  IF startIndex < 0 \/ endIndex < 0 THEN Thrown("TypeError")
  ELSE interpolateBetween(path.waypoints[startIndex + 1], path.waypoints[endIndex + 1],
                          segmentProgress)

\* interpolatePath from "Calculate segment" on; Math.floor(NaN) is NaN and
\* indexes no waypoint.
interpolateSegment(path, normalizedProgress, segmentCount, segmentLength) ==
  IF normalizedProgress = NaN THEN Thrown("TypeError")
  ELSE interpolateFrom(path,
         IMod(Floor(FDiv(normalizedProgress, segmentLength)), Len(path.waypoints)),
         IMod(IMod(Floor(FDiv(normalizedProgress, segmentLength)), Len(path.waypoints)) + 1,
              Len(path.waypoints)),
         IF segmentCount > 0
           THEN FDiv(FMod(normalizedProgress, segmentLength), segmentLength)
           ELSE 0)

\* interpolateSegments that gives a looping path the segments of an open one.
interpolateSegmentsOpen(path, progress) ==
  interpolateSegment(path,
    IF path.loop THEN FMod(progress, One) ELSE MathMin(One, MathMax(0, progress)),
    Len(path.waypoints) - 1,
    FDiv(One, (Len(path.waypoints) - 1) * One))
\* interpolatePath from "Handle looping paths" on: two or more waypoints.
interpolateSegments(path, progress) ==
  interpolateSegment(path,
    IF path.loop THEN FMod(progress, One) ELSE MathMin(One, MathMax(0, progress)),
    Len(path.waypoints) - (IF path.loop THEN 0 ELSE 1),
    FDiv(One, (Len(path.waypoints) - (IF path.loop THEN 0 ELSE 1)) * One))

\* interpolatePath that sends a path of fewer than two waypoints to the origin.
interpolatePathShortAtOrigin(path, progress) ==
  IF Len(path.waypoints) < 2
    THEN [err |-> "none", position |-> ZeroVec, rotation |-> ZeroVec]
    ELSE interpolateSegments(path, progress)
interpolatePath(path, progress) ==
  IF Len(path.waypoints) = 0 THEN Thrown("Error")
  ELSE IF Len(path.waypoints) = 1
    THEN [err |-> "none",
          position |-> path.waypoints[1].position,
          rotation |-> path.waypoints[1].rotation]
  ELSE interpolateSegments(path, progress)

(***************************************************************************)
(* pathProgressUtils                                                       *)
(***************************************************************************)
\* The divisor of calculateProgressDelta (its local pathLength).
progressDivisor(path) ==
  IF Len(path.waypoints) > 1 THEN Len(path.waypoints) - 1 ELSE 1

calculateProgressDelta(path, delta, simulationSpeed) ==
  FDiv(FMul(FMul(delta, path.speed), simulationSpeed), progressDivisor(path) * One)

\* calculateNextProgress with onComplete called on every path that reaches 1,
\* looping or not.
calculateNextProgressAnyPath(currentProgress, progressDelta, path) ==
  LET newProgress == FAdd(currentProgress, progressDelta) IN
  IF FGe(newProgress, One)
    THEN IF path.loop
           THEN [progress |-> FMod(newProgress, One), completed |-> 1]
           ELSE [progress |-> One, completed |-> 1]
    ELSE [progress |-> newProgress, completed |-> 0]
\* calculateNextProgress that clamps at 1 and never calls onComplete.
calculateNextProgressSilent(currentProgress, progressDelta, path) ==
  LET newProgress == FAdd(currentProgress, progressDelta) IN
  IF FGe(newProgress, One)
    THEN [progress |-> IF path.loop THEN FMod(newProgress, One) ELSE One, completed |-> 0]
    ELSE [progress |-> newProgress, completed |-> 0]
\* The returned progress, and how many times onComplete was invoked.
calculateNextProgress(currentProgress, progressDelta, path) ==
  LET newProgress == FAdd(currentProgress, progressDelta) IN
  IF FGe(newProgress, One)
    THEN IF path.loop
           THEN [progress |-> FMod(newProgress, One), completed |-> 0]
           ELSE [progress |-> One, completed |-> 1]
    ELSE [progress |-> newProgress, completed |-> 0]

(***************************************************************************)
(* endEffectorUtils, boundingBoxUtils, collisionUtils                      *)
(***************************************************************************)
\* calculateEndEffectorPosition that always takes the default offset.
calculateEndEffectorPositionDefault(robot) ==
  [x |-> FAdd(robot.position.x, DefaultEndEffectorOffset.x),
   y |-> FAdd(robot.position.y, DefaultEndEffectorOffset.y),
   z |-> FAdd(robot.position.z, DefaultEndEffectorOffset.z)]
\* properties.endEffectorOffset is << >> when unset, << v >> when set.
calculateEndEffectorPosition(robot) ==
  LET offset == IF robot.properties.endEffectorOffset = << >>
                  THEN DefaultEndEffectorOffset
                  ELSE robot.properties.endEffectorOffset[1]
  IN [x |-> FAdd(robot.position.x, offset.x),
      y |-> FAdd(robot.position.y, offset.y),
      z |-> FAdd(robot.position.z, offset.z)]

\* The per-type box size before scale (full extent on each axis).
CameraSize == createVector3(Lit(1, 2), Lit(1, 2), Lit(1, 2))
UnitSize == createVector3(One, One, One)
\* A robot box as high as it is wide.
RobotSizeCube == createVector3(Lit(8, 10), Lit(8, 10), Lit(8, 10))
RobotSize == createVector3(Lit(8, 10), Lit(3, 2), Lit(8, 10))
GripperSize == createVector3(Lit(3, 10), Lit(3, 10), Lit(6, 10))
\* typeSize that gives every type the default size.
typeSizeDefault(type) == UnitSize
typeSize(type) ==
  CASE type = "camera" -> CameraSize
    [] type = "bin" -> UnitSize
    [] type = "obstacle" -> UnitSize
    [] type = "robot" -> RobotSize
    [] type = "gripper" -> GripperSize
    [] OTHER -> UnitSize

\* The box of the given full extent around a center.
boxAround(center, size) ==
  [min |-> [x |-> FSub(center.x, FDiv(size.x, Two)),
            y |-> FSub(center.y, FDiv(size.y, Two)),
            z |-> FSub(center.z, FDiv(size.z, Two))],
   max |-> [x |-> FAdd(center.x, FDiv(size.x, Two)),
            y |-> FAdd(center.y, FDiv(size.y, Two)),
            z |-> FAdd(center.z, FDiv(size.z, Two))]]
\* size.x *= object.scale.x, and so for y and z
scaledSize(base, scale) ==
  [x |-> FMul(base.x, scale.x), y |-> FMul(base.y, scale.y), z |-> FMul(base.z, scale.z)]
getObjectBoundingBox(object) ==
  boxAround(object.position, scaledSize(typeSize(object.type), object.scale))

\* checkAABBCollision with strict comparisons: boxes that only touch miss.
checkAABBCollisionStrict(box1, box2) ==
  /\ box1.min.x < box2.max.x
  /\ box1.max.x > box2.min.x
  /\ box1.min.y < box2.max.y
  /\ box1.max.y > box2.min.y
  /\ box1.min.z < box2.max.z
  /\ box1.max.z > box2.min.z

checkAABBCollision(box1, box2) ==
  /\ box1.min.x <= box2.max.x
  /\ box1.max.x >= box2.min.x
  /\ box1.min.y <= box2.max.y
  /\ box1.max.y >= box2.min.y
  /\ box1.min.z <= box2.max.z
  /\ box1.max.z >= box2.min.z

checkObjectCollision(obj1, obj2) ==
  checkAABBCollision(getObjectBoundingBox(obj1), getObjectBoundingBox(obj2))

\* findCollidingObjects without the test on ids.
findCollidingObjectsWithSelf(object, allObjects) ==
  LET Hit(other) == checkObjectCollision(object, other)
  IN SelectSeq(allObjects, Hit)
\* Array.prototype.filter is SelectSeq: it keeps input order.
findCollidingObjects(object, allObjects) ==
  LET Hit(other) == other.id # object.id /\ checkObjectCollision(object, other)
  IN SelectSeq(allObjects, Hit)

\* objectQueryUtils
filterObjectsByType(objs, type) ==
  LET IsType(o) == o.type = type IN SelectSeq(objs, IsType)
\* filterRobots that lets every object through.
filterRobotsAnyType(objs) == objs
filterRobots(objs) == filterObjectsByType(objs, "robot")
filterGrippers(objs) == filterObjectsByType(objs, "gripper")
filterCameras(objs) == filterObjectsByType(objs, "camera")
\* filterObjectsVisibleToCameras: every object that is not a camera.
filterObjectsVisibleToCameras(objs, excludeCameraId) ==
  LET Seen(o) == o.type # "camera" /\ o.id # excludeCameraId IN SelectSeq(objs, Seen)

(***************************************************************************)
(* boundingBoxUtils.getBoundingBoxCorners and visionUtils                  *)
(***************************************************************************)
getBoundingBoxCorners(bbox) ==
  << createVector3(bbox.min.x, bbox.min.y, bbox.min.z),
     createVector3(bbox.max.x, bbox.min.y, bbox.min.z),
     createVector3(bbox.min.x, bbox.max.y, bbox.min.z),
     createVector3(bbox.max.x, bbox.max.y, bbox.min.z),
     createVector3(bbox.min.x, bbox.min.y, bbox.max.z),
     createVector3(bbox.max.x, bbox.min.y, bbox.max.z),
     createVector3(bbox.min.x, bbox.max.y, bbox.max.z),
     createVector3(bbox.max.x, bbox.max.y, bbox.max.z) >>

\* The near and far distances isPointInFrustum gives its camera.
FrustumNear == Lit(1, 10)
FrustumFar == 10 * One
DefaultFov == 60 * One
\* camera.properties.fov || 60
fovOf(camera) ==
  IF "fov" \in DOMAIN camera.properties /\ camera.properties.fov # 0
    THEN camera.properties.fov
    ELSE DefaultFov
\* resolution.width / resolution.height, of whole numbers of pixels, with
\* 1920 x 1080 when the camera has no resolution.
aspectOf(camera) ==
  IF "resolution" \in DOMAIN camera.properties
    THEN Lit(camera.properties.resolution.width, camera.properties.resolution.height)
    ELSE Lit(1920, 1080)
\* Math.tan(DEG2RAD * 0.5 * fov) for the fields of view of the model.
tanHalfFov(fov) ==
  CASE fov = 60 * One -> Lit(57735, 100000)
    [] fov = 90 * One -> One

\* PerspectiveCamera.updateProjectionMatrix: top = near * tan / zoom,
\* height = 2 * top, width = aspect * height, and the matrix entries
\* x = 2 * near / (right - left), y = 2 * near / (top - bottom); the
\* differences are width and height exactly.
frustumHeight(camera) == FMul(Two, FMul(FrustumNear, tanHalfFov(fovOf(camera))))
projectionX(aspect, height) == FDiv(FMul(Two, FrustumNear), FMul(aspect, height))
projectionY(height) == FDiv(FMul(Two, FrustumNear), height)
\* c = -(far + near) / (far - near) and d = -2 * far * near / (far - near)
projectionC == FDiv(-FAdd(FrustumFar, FrustumNear), FSub(FrustumFar, FrustumNear))
projectionD ==
  FDiv(FMul(FMul(-Two, FrustumFar), FrustumNear), FSub(FrustumFar, FrustumNear))

\* Frustum.setFromProjectionMatrix on projectionMatrix * matrixWorldInverse.
\* isPointInFrustum sets the position and the rotation of its camera and
\* never updates the camera's world matrix, so matrixWorldInverse is the
\* identity it was constructed with and the six planes are those of the
\* projection matrix alone: right, left, bottom, top, far, near.  A plane
\* is kept by its normal and constant before normalisation, which changes
\* neither the sign of a distance nor whether it is 0.
Plane(nx, ny, nz, constant) == [normal |-> createVector3(nx, ny, nz), constant |-> constant]
setFromProjectionMatrix(x, y) ==
  << Plane(-x, 0, -One, 0),
     Plane(x, 0, -One, 0),
     Plane(0, y, -One, 0),
     Plane(0, -y, -One, 0),
     Plane(0, 0, FSub(-One, projectionC), -projectionD),
     Plane(0, 0, FAdd(-One, projectionC), projectionD) >>
lensFrustum(aspect, height) ==
  setFromProjectionMatrix(projectionX(aspect, height), projectionY(height))
\* The frustum of every camera that has neither fov nor resolution.
DefaultLensFrustum ==
  lensFrustum(Lit(1920, 1080), FMul(Two, FMul(FrustumNear, tanHalfFov(DefaultFov))))
cameraFrustum(camera, height) ==
  IF "fov" \in DOMAIN camera.properties \/ "resolution" \in DOMAIN camera.properties
    THEN lensFrustum(aspectOf(camera), height)
    ELSE DefaultLensFrustum
\* Plane.distanceToPoint: normal . point + constant
distanceToPoint(plane, point) ==
  FAdd(FAdd(FAdd(FMul(plane.normal.x, point.x), FMul(plane.normal.y, point.y)),
            FMul(plane.normal.z, point.z)),
       plane.constant)
\* Frustum.containsPoint: no plane has the point at a distance below 0.
containsPoint(planes, point) ==
  \A i \in DOMAIN planes : ~FLt(distanceToPoint(planes[i], point), 0)

isPointInFrustum(point, camera) ==
  containsPoint(cameraFrustum(camera, frustumHeight(camera)), point)

\* corners.some((corner) => isPointInFrustum(corner, camera)); every call
\* of isPointInFrustum builds the same frustum, which is built once here.
someCornerInFrustum(corners, frustum) ==
  \E i \in DOMAIN corners : containsPoint(frustum, corners[i])
\* isObjectVisible that looks at the four corners of the box with the
\* least z only.
isObjectVisibleNearFace(object, camera) ==
  \E bbox \in {getObjectBoundingBox(object)} :
    \E frustum \in {cameraFrustum(camera, frustumHeight(camera))} :
      someCornerInFrustum(SubSeq(getBoundingBoxCorners(bbox), 1, 4), frustum)
isObjectVisible(object, camera) ==
  \E bbox \in {getObjectBoundingBox(object)} :
    \E frustum \in {cameraFrustum(camera, frustumHeight(camera))} :
      someCornerInFrustum(getBoundingBoxCorners(bbox), frustum)

\* isObjectVisible(object, camera) ? 1 : 0
calculateVisibilityPercentage(object, camera) ==
  IF isObjectVisible(object, camera) THEN One ELSE 0

(***************************************************************************)
(* Bounds and the inputs the environment supplies                          *)
(***************************************************************************)
MaxWaypoints == 6
MaxFrames == 3

\* Waypoint k of the catalogue paths: a zig-zag in the ground plane with a
\* yaw that crosses the +-pi wrap between consecutive waypoints.
WaypointAt(k) ==
  [position |-> createVector3(IF k % 4 \in {2, 3} THEN 10 * One ELSE 0,
                              Half,
                              4 * ((k - 1) \div 2) * One),
   rotation |-> createVector3(0,
                              CASE k % 3 = 1 -> 0
                                [] k % 3 = 2 -> 3 * One
                                [] OTHER -> -3 * One,
                              0)]

PathOf(id, n, loop) ==
  [id |-> id, waypoints |-> [k \in 1..n |-> WaypointAt(k)], loop |-> loop, speed |-> One]

\* Open paths of every length up to the bound, and closed loops of 1..3 waypoints.
LoopSizes == {1, 2, 3}
PathCatalogue ==
  {PathOf("p1", n, FALSE) : n \in 0..MaxWaypoints} \cup {PathOf("p1", n, TRUE) : n \in LoopSizes}

NoProps ==
  [parentRobotId |-> NoId, pathId |-> NoId, gripperId |-> NoId, endEffectorOffset |-> << >>]

SceneObject(id, type, position, cameraType, properties) ==
  [id |-> id, type |-> type, position |-> position, rotation |-> ZeroVec,
   scale |-> UnitScale, cameraType |-> cameraType, properties |-> properties]

Robot1 ==
  SceneObject("r1", "robot", createVector3(One, Half, One), "none",
              [NoProps EXCEPT !.pathId = "p1", !.gripperId = "g1"])
Gripper1 ==
  SceneObject("g1", "gripper", createVector3(One, Lit(5, 4), One), "none",
              [NoProps EXCEPT !.parentRobotId = "r1"])
Camera1 ==
  SceneObject("c1", "camera", createVector3(3 * One, Half, 3 * One), "eye-in-hand",
              [NoProps EXCEPT !.parentRobotId = "r1"])
Obstacle1 ==
  SceneObject("o1", "obstacle", createVector3(10 * One, Half, 0), "none", NoProps)
Obstacle2 ==
  SceneObject("o2", "obstacle", createVector3(0, Half, -5 * One), "none", NoProps)

\* The scenes a scene file can hold.
SceneSet ==
  { << Robot1, Gripper1, Camera1, Obstacle1 >>,
    << Obstacle1, Camera1, Obstacle2 >> }

\* Seconds between two rendered frames.
DeltaSet == {5 * One}
\* Arguments of setSimulationSpeed and setSimulationProgress: numbers below,
\* inside and above the interval each is clamped to.
SpeedSet == {0, 2 * One, 9 * One}
ProgressSet == {-One, Half, 3 * One}

(***************************************************************************)
(* The store                                                               *)
(***************************************************************************)
VARIABLES objects, paths, simulation, collisions, visibility, completions, frames, last,
          probe

storeVars ==
  << objects, paths, simulation, collisions, visibility, completions, frames, last >>
vars ==
  << objects, paths, simulation, collisions, visibility, completions, frames, last, probe >>

InitialSimulation ==
  [state |-> "idle", progress |-> 0, currentPathId |-> NoId, speed |-> One]

\* probe holds one call of a utility function: its arguments, and its result
\* once the call has returned.  The store never touches it.
NoProbe == [fn |-> "none"]

\* What the last step was: "frame", a store action's name or "other", and for a
\* frame the robot the path moved, how often onComplete ran and whether an
\* exception left the movement callback.
Step(op) == [op |-> op, moved |-> NoId, completed |-> 0, escaped |-> FALSE]

InitStore ==
  /\ objects = << >>
  /\ paths = << >>
  /\ simulation = InitialSimulation
  /\ collisions = << >>
  /\ visibility = [cameraId \in {} |-> << >>]
  /\ completions = 0
  /\ frames = 0
  /\ last = Step("other")

Init == InitStore /\ probe = NoProbe

\* { ...obj, ...updates }
Spread(obj, updates) ==
  [f \in DOMAIN obj \cup DOMAIN updates |->
     IF f \in DOMAIN updates THEN updates[f] ELSE obj[f]]

\* updateObject that merges the fields into every object.
updateObjectAll(objs, id, updates) == [i \in DOMAIN objs |-> Spread(objs[i], updates)]
\* sceneObjectsSlice.updateObject, on an object list
updateObject(objs, id, updates) ==
  [i \in DOMAIN objs |-> IF objs[i].id = id THEN Spread(objs[i], updates) ELSE objs[i]]

\* sceneObjectsSlice.removeObject, on an object list
removeObject(objs, id) == LET Kept(obj) == obj.id # id IN SelectSeq(objs, Kept)

\* visionSlice.setVisibility, on the visibility mapping:
\* { ...state.visibility, [cameraId]: visibleObjectIds }
setVisibility(mapping, cameraId, visibleObjectIds) ==
  [id \in DOMAIN mapping \cup {cameraId} |->
     IF id = cameraId THEN visibleObjectIds ELSE mapping[id]]

\* simulationSlice, on a SimulationData value
\* startSimulation that leaves currentPathId as it is.
startSimulationSamePath(pathId) ==
  [state |-> "playing", progress |-> 0, currentPathId |-> simulation.currentPathId,
   speed |-> One]
startSimulation(pathId) ==
  [state |-> "playing", progress |-> 0, currentPathId |-> pathId, speed |-> One]
\* pauseSimulation that resumes a paused simulation.
pauseSimulationToggle(sim) ==
  [sim EXCEPT !.state = IF sim.state = "paused" THEN "playing" ELSE "paused"]
pauseSimulation(sim) == [sim EXCEPT !.state = "paused"]
\* stopSimulation that only leaves the playing state.
stopSimulationStateOnly == [simulation EXCEPT !.state = "idle"]
stopSimulation ==
  [state |-> "idle", progress |-> 0, currentPathId |-> NoId, speed |-> One]
\* setSimulationProgress with the upper clamp only.
setSimulationProgressUpperOnly(sim, progress) ==
  [sim EXCEPT !.progress = MathMin(One, progress)]
setSimulationProgress(sim, progress) ==
  [sim EXCEPT !.progress = MathMax(0, MathMin(One, progress))]
\* setSimulationSpeed with the bounds of the progress clamp.
setSimulationSpeedUnitClamp(sim, speed) ==
  [sim EXCEPT !.speed = MathMax(0, MathMin(One, speed))]
setSimulationSpeed(sim, speed) ==
  [sim EXCEPT !.speed = MathMax(MinSpeed, MathMin(MaxSpeed, speed))]

\* Array.prototype.find: << >> when nothing matches, else << first match >>.
Find(seq, Test(_)) ==
  LET hits == SelectSeq(seq, Test) IN IF hits = << >> THEN << >> ELSE << Head(hits) >>

(***************************************************************************)
(* The per-frame systems.  Each system component reads `objects`,          *)
(* `paths` and `simulation` through a store hook in its render function    *)
(* and its useFrame callback closes over those values, so during a frame   *)
(* every callback sees the store as of the last render (the start of the   *)
(* frame), while its writes go through the store's functional setters and  *)
(* merge into the current store state.  In the operators below `snap` is   *)
(* that render-time object list and `store` the current one.               *)
(***************************************************************************)

\* An early return that stops the simulation.
SkipFrameStopping(snap, snapSim) ==
  [objects |-> snap, simulation |-> stopSimulation, moved |-> NoId, completed |-> 0,
   escaped |-> FALSE]
\* A useFrame callback of RobotMovementSystem that returns early.
SkipFrame(snap, snapSim) ==
  [objects |-> snap, simulation |-> snapSim, moved |-> NoId, completed |-> 0, escaped |-> FALSE]

\* The end of RobotMovementSystem's useFrame callback:
\* try { interpolatePath ... updateObject } catch { }
placeRobot(snap, sim, robot, next, pose) ==
  [objects |-> IF pose.err = "none"
                 THEN updateObject(snap, robot.id,
                        [position |-> pose.position, rotation |-> pose.rotation])
                 ELSE snap,
   simulation |-> sim,
   moved |-> IF pose.err = "none" THEN robot.id ELSE NoId,
   completed |-> next.completed,
   escaped |-> FALSE]

\* The callback that places every robot assigned to the path.
advanceRobotEveryOnPath(snap, snapSim, path, robot, next) ==
  LET pose == interpolatePath(path, next.progress) IN
  [objects |-> [i \in DOMAIN snap |->
                  IF pose.err = "none" /\ snap[i].type = "robot"
                       /\ snap[i].properties.pathId = path.id
                    THEN [snap[i] EXCEPT !.position = pose.position,
                                         !.rotation = pose.rotation]
                    ELSE snap[i]],
   simulation |-> setSimulationProgress(IF next.completed > 0 THEN stopSimulation
                                        ELSE snapSim, next.progress),
   moved |-> IF pose.err = "none" THEN robot.id ELSE NoId,
   completed |-> next.completed,
   escaped |-> FALSE]
\* The callback with stopSimulation called after setSimulationProgress.
advanceRobotStoppingLast(snap, snapSim, path, robot, next) ==
  placeRobot(snap,
             IF next.completed > 0 THEN stopSimulation
             ELSE setSimulationProgress(snapSim, next.progress),
             robot, next, interpolatePath(path, next.progress))
\* RobotMovementSystem's useFrame callback from calculateNextProgress's
\* return on; onComplete is () => stopSimulation().
advanceRobot(snap, snapSim, path, robot, next) ==
  placeRobot(snap,
             setSimulationProgress(IF next.completed > 0 THEN stopSimulation ELSE snapSim,
                                   next.progress),
             robot, next, interpolatePath(path, next.progress))

\* RobotMovementSystem's useFrame callback from "Find robot assigned to this
\* path" on.
moveRobotAlong(snap, snapSim, path, delta) ==
  LET OnPath(r) == r.properties.pathId = path.id
      robots == Find(filterRobots(snap), OnPath)
  IN
  IF robots = << >> THEN SkipFrame(snap, snapSim)
  ELSE advanceRobot(snap, snapSim, path, robots[1],
         calculateNextProgress(snapSim.progress,
           calculateProgressDelta(path, delta, snapSim.speed), path))

\* RobotMovementSystem without the early return on a path of no waypoints.
RobotMovementSystemAnyLength(snap, snapPaths, snapSim, delta) ==
  LET IsCurrent(p) == p.id = snapSim.currentPathId
      found == Find(snapPaths, IsCurrent)
  IN
  IF snapSim.state # "playing" \/ snapSim.currentPathId = NoId THEN SkipFrame(snap, snapSim)
  ELSE IF found = << >> THEN SkipFrame(snap, snapSim)
  ELSE moveRobotAlong(snap, snapSim, found[1], delta)
\* RobotMovementSystem's useFrame callback.
RobotMovementSystem(snap, snapPaths, snapSim, delta) ==
  LET IsCurrent(p) == p.id = snapSim.currentPathId
      found == Find(snapPaths, IsCurrent)
  IN
  IF snapSim.state # "playing" \/ snapSim.currentPathId = NoId THEN SkipFrame(snap, snapSim)
  ELSE IF found = << >> THEN SkipFrame(snap, snapSim)
  ELSE IF Len(found[1].waypoints) = 0 THEN SkipFrame(snap, snapSim)
  ELSE moveRobotAlong(snap, snapSim, found[1], delta)

\* CameraSystem's useFrame callback: the position an eye-in-hand camera takes.
cameraEndEffectorPosition(snap, robot) ==
  LET IsGripper(o) == o.type = "gripper" /\ o.id = robot.properties.gripperId
      gripper == Find(snap, IsGripper)
      set == robot.properties.endEffectorOffset # << >>
      Plus(offset) == [x |-> FAdd(robot.position.x, offset.x),
                       y |-> FAdd(robot.position.y, offset.y),
                       z |-> FAdd(robot.position.z, offset.z)]
  IN IF robot.properties.gripperId # NoId
       THEN IF gripper # << >> THEN gripper[1].position
            ELSE Plus(IF set THEN robot.properties.endEffectorOffset[1] ELSE ZeroVec)
       ELSE Plus(IF set THEN robot.properties.endEffectorOffset[1]
                 ELSE DefaultEndEffectorOffset)

RECURSIVE CameraSystem(_, _, _)
CameraSystem(cameras, snap, store) ==
  IF cameras = << >> THEN store
  ELSE
    LET camera == Head(cameras)
        IsParent(o) == o.type = "robot" /\ o.id = camera.properties.parentRobotId
        robot == Find(snap, IsParent)
        after ==
          IF camera.cameraType = "eye-in-hand"
               /\ camera.properties.parentRobotId # NoId
               /\ robot # << >>
            THEN updateObject(store, camera.id,
                   [position |-> cameraEndEffectorPosition(snap, robot[1]),
                    rotation |-> robot[1].rotation])
            ELSE store
    IN CameraSystem(Tail(cameras), snap, after)

\* The useFrame callback of the CameraSystem that looks its robot up with
\* filterRobots and places the camera with calculateEndEffectorPosition.
RECURSIVE CameraSystemViaRobots(_, _, _)
CameraSystemViaRobots(cameras, snap, store) ==
  IF cameras = << >> THEN store
  ELSE
    LET camera == Head(cameras)
        IsParent(r) == r.id = camera.properties.parentRobotId
        robot == Find(filterRobots(snap), IsParent)
        after ==
          IF camera.cameraType = "eye-in-hand"
               /\ camera.properties.parentRobotId # NoId
               /\ robot # << >>
            THEN updateObject(store, camera.id,
                   [position |-> calculateEndEffectorPosition(robot[1]),
                    rotation |-> robot[1].rotation])
            ELSE store
    IN CameraSystemViaRobots(Tail(cameras), snap, after)

\* GripperSystem's useFrame callback.
RECURSIVE GripperSystem(_, _, _)
GripperSystem(grippers, snap, store) ==
  IF grippers = << >> THEN store
  ELSE
    LET gripper == Head(grippers)
        IsParent(r) == r.id = gripper.properties.parentRobotId
        robot == Find(filterRobots(snap), IsParent)
        after ==
          IF gripper.properties.parentRobotId # NoId /\ robot # << >>
            THEN updateObject(store, gripper.id,
                   [position |-> calculateEndEffectorPosition(robot[1]),
                    rotation |-> robot[1].rotation])
            ELSE store
    IN GripperSystem(Tail(grippers), snap, after)

\* .map((obj) => obj.id)
idsOf(objs) == [i \in DOMAIN objs |-> objs[i].id]
\* The ids of the objects of the list that the camera sees.
visibleObjectIds(objectsToCheck, camera) ==
  LET Visible(obj) == isObjectVisible(obj, camera) IN idsOf(SelectSeq(objectsToCheck, Visible))
\* VisionValidationSystem's useFrame callback: the mapping in the store
\* after the setVisibility call of each camera.
RECURSIVE VisionValidationSystem(_, _, _)
VisionValidationSystem(cameras, snap, mapping) ==
  IF cameras = << >> THEN mapping
  ELSE VisionValidationSystem(Tail(cameras), snap,
         setVisibility(mapping, Head(cameras).id,
           visibleObjectIds(filterObjectsVisibleToCameras(snap, Head(cameras).id),
                            Head(cameras))))

\* Set.prototype.add on the insertion-ordered id set.
SetAdd(ids, id) ==
  IF \E i \in DOMAIN ids : ids[i] = id THEN ids ELSE Append(ids, id)

RECURSIVE MarkColliding(_, _, _)
MarkColliding(ids, robotId, colliding) ==
  IF colliding = << >> THEN ids
  ELSE MarkColliding(SetAdd(SetAdd(ids, robotId), Head(colliding).id),
                     robotId, Tail(colliding))

\* CollisionDetector that adds the ids it finds to the ids already in the
\* store instead of replacing them.
RECURSIVE CollisionDetectorAccumulating(_, _, _)
CollisionDetectorAccumulating(robots, snap, ids) ==
  IF robots = << >>
    THEN collisions \o
         SelectSeq(ids, LAMBDA id : \A i \in DOMAIN collisions : collisions[i] # id)
  ELSE CollisionDetectorAccumulating(Tail(robots), snap,
         MarkColliding(ids, Head(robots).id, findCollidingObjects(Head(robots), snap)))
\* CollisionDetector's useFrame callback: the array handed to setCollisions.
RECURSIVE CollisionDetector(_, _, _)
CollisionDetector(robots, snap, ids) ==
  IF robots = << >> THEN ids
  ELSE CollisionDetector(Tail(robots), snap,
         MarkColliding(ids, Head(robots).id, findCollidingObjects(Head(robots), snap)))

(***************************************************************************)
(* Actions                                                                 *)
(***************************************************************************)
\* One rendered frame: the useFrame callbacks in the order SceneContent
\* mounts the systems.
\* The callbacks that run after RobotMovementSystem's, which left mv.
FrameAfterMovement(mv) ==
  /\ objects' = GripperSystem(filterGrippers(objects), objects,
                  CameraSystem(filterCameras(objects), objects, mv.objects))
  /\ simulation' = mv.simulation
  /\ visibility' = VisionValidationSystem(filterCameras(objects), objects, visibility)
  /\ collisions' = CollisionDetector(filterRobots(objects), objects, << >>)
  /\ completions' = Min(completions + mv.completed, 2)
  /\ last' = [op |-> "frame", moved |-> mv.moved,
              completed |-> mv.completed, escaped |-> mv.escaped]

Frame(delta) ==
  /\ frames < MaxFrames
  /\ frames' = frames + 1
  /\ FrameAfterMovement(RobotMovementSystem(objects, paths, simulation, delta))
  /\ UNCHANGED << paths, probe >>

\* removeObject: an object of the scene is deleted.
RemoveObject(id) ==
  /\ \E i \in DOMAIN objects : objects[i].id = id
  /\ objects' = removeObject(objects, id)
  /\ last' = Step("other")
  /\ UNCHANGED << paths, simulation, collisions, visibility, completions, frames, probe >>

\* setObjects: the scene file is loaded once, into the empty editor.
SetObjects(scene) ==
  /\ objects = << >>
  /\ objects' = scene
  /\ last' = Step("other")
  /\ UNCHANGED << paths, simulation, collisions, visibility, completions, frames, probe >>

\* addPath: one path is defined.
AddPath(path) ==
  /\ paths = << >>
  /\ paths' = Append(paths, path)
  /\ last' = Step("other")
  /\ UNCHANGED << objects, simulation, collisions, visibility, completions, frames, probe >>

StartSimulation(pathId) ==
  /\ simulation' = startSimulation(pathId)
  /\ completions' = 0
  /\ last' = Step("other")
  /\ UNCHANGED << objects, paths, collisions, visibility, frames, probe >>

PauseSimulation ==
  /\ simulation' = pauseSimulation(simulation)
  /\ last' = Step("other")
  /\ UNCHANGED << objects, paths, collisions, visibility, completions, frames, probe >>

StopSimulation ==
  /\ simulation' = stopSimulation
  /\ last' = Step("stopSimulation")
  /\ UNCHANGED << objects, paths, collisions, visibility, completions, frames, probe >>

SetSimulationProgress(progress) ==
  /\ simulation' = setSimulationProgress(simulation, progress)
  /\ last' = Step("other")
  /\ UNCHANGED << objects, paths, collisions, visibility, completions, frames, probe >>

SetSimulationSpeed(speed) ==
  /\ simulation' = setSimulationSpeed(simulation, speed)
  /\ last' = Step("other")
  /\ UNCHANGED << objects, paths, collisions, visibility, completions, frames, probe >>

Next ==
  \/ \E delta \in DeltaSet : Frame(delta)
  \/ \E scene \in SceneSet : SetObjects(scene)
  \/ \E path \in PathCatalogue : AddPath(path)
  \/ StartSimulation("p1")
  \/ PauseSimulation
  \/ StopSimulation
  \/ \E progress \in ProgressSet : SetSimulationProgress(progress)
  \/ \E speed \in SpeedSet : SetSimulationSpeed(speed)

Spec == Init /\ [][Next]_vars

(***************************************************************************)
(* The editor with a scene on screen and no simulation: frames are         *)
(* rendered while the user deletes objects.  Beside the scenes of the      *)
(* scene files there is one with two cameras, the second of them inside    *)
(* the volume the first sees.                                              *)
(***************************************************************************)
Camera2 ==
  SceneObject("c2", "camera", createVector3(0, 0, -4 * One), "eye-to-hand", NoProps)
EditedScenes == SceneSet \cup { << Camera1, Obstacle2, Camera2, Obstacle1 >> }
\* The objects the user deletes.
RemovedIds == {"c1", "c2", "o2", "r1"}
InitScene ==
  /\ objects \in EditedScenes
  /\ paths = << >>
  /\ simulation = InitialSimulation
  /\ collisions = << >>
  /\ visibility = [cameraId \in {} |-> << >>]
  /\ completions = 0
  /\ frames = 0
  /\ last = Step("other")
  /\ probe = NoProbe
NextScene ==
  \/ \E delta \in DeltaSet : Frame(delta)
  \/ \E id \in RemovedIds : RemoveObject(id)
SpecScene == InitScene /\ [][NextScene]_vars

(***************************************************************************)
(* The editor with a scene on screen while the user edits objects: each    *)
(* step is one call of updateObject, with the id of an object of some      *)
(* scene or an id no object has, and one, two or no fields to merge.       *)
(***************************************************************************)
UpdatedIds == {"r1", "c1", "o2", "zz"}
UpdateSet ==
  { [position |-> createVector3(2 * One, 0, 2 * One)],
    [rotation |-> createVector3(0, Half, 0)],
    [position |-> ZeroVec, rotation |-> createVector3(0, One, 0)],
    [properties |-> [NoProps EXCEPT !.parentRobotId = "r1"]],
    [unused \in {} |-> 0] }
UpdateObject(id, updates) ==
  /\ objects' = updateObject(objects, id, updates)
  /\ last' = Step("updateObject")
  /\ UNCHANGED << paths, simulation, collisions, visibility, completions, frames, probe >>
NextUpdate == \E id \in UpdatedIds, updates \in UpdateSet : UpdateObject(id, updates)
SpecUpdate == InitScene /\ [][NextUpdate]_vars

(***************************************************************************)
(* The editor while the user builds a scene: a scene file is loaded, the   *)
(* ground is clicked in placement mode, objects are edited and deleted,    *)
(* and frames are rendered.  An id is made of the clock reading and of     *)
(* the digits Math.random gives, both left to the environment; a scene     *)
(* file holds whatever objects array its JSON text has.                    *)
(***************************************************************************)
\* The length of the object list above which the ground is not clicked.
MaxListLength == 2
\* transformUtils.createId: `${Date.now()}-${Math.random()...substr(2, 9)}`
createId(now, random) == now \o "-" \o random
\* Date.now() of the clicks (one millisecond) and the digits of Math.random.
NowSet == {"17"}
RandomSet == {"k3", "p0"}
\* sceneObjectsSlice.addObject, on an object list
addObject(objs, object) == Append(objs, object)
\* objectFactory.createSceneObject, createCameraObject, createGripperForRobot
\* with the id createId gave.  A camera's default fov and resolution are the
\* values fovOf and aspectOf take for a camera without them.
createSceneObject(id, type, position) ==
  SceneObject(id, type, position, "none",
              IF type = "robot"
                THEN [NoProps EXCEPT !.endEffectorOffset = << DefaultEndEffectorOffset >>]
                ELSE NoProps)
createCameraObject(id, position) ==
  SceneObject(id, "camera", position, "eye-to-hand", NoProps)
createGripperForRobot(id, robotId, robotPosition, endEffectorOffset) ==
  SceneObject(id, "gripper",
              [x |-> FAdd(robotPosition.x, endEffectorOffset.x),
               y |-> FAdd(robotPosition.y, endEffectorOffset.y),
               z |-> FAdd(robotPosition.z, endEffectorOffset.z)],
              "none", [NoProps EXCEPT !.parentRobotId = robotId])
\* The robot with robot.properties.gripperId = gripper.id, and the gripper.
robotWithGripper(robot, gripperId) ==
  << [robot EXCEPT !.properties.gripperId = gripperId],
     createGripperForRobot(gripperId, robot.id, robot.position,
                           robot.properties.endEffectorOffset[1]) >>
\* objectFactory.createObjectAtPoint with no options (yOffset 0.5): the
\* objects created, in the order Ground.handleClick adds them; ids are the
\* results of the createId calls in call order.
createObjectAtPoint(type, point, ids) ==
  IF type = "camera"
    THEN << createCameraObject(ids[1], createVector3(point.x, FAdd(point.y, Half), point.z)) >>
  ELSE IF type = "robot"
    THEN robotWithGripper(
           createSceneObject(ids[1], type, createVector3(point.x, FAdd(point.y, Half), point.z)),
           ids[2])
  ELSE IF type = "gripper"
    THEN << createSceneObject(ids[1], "obstacle",
                              createVector3(point.x, FAdd(point.y, Half), point.z)) >>
  ELSE << createSceneObject(ids[1], type, createVector3(point.x, FAdd(point.y, Half), point.z)) >>

\* Ground.handleClick in placement mode: nothing is added for a gripper.
PlacedTypes == {"robot", "camera", "gripper"}
ClickPoints == {createVector3(0, 0, -5 * One)}
CreatedIds == {createId(now, random) : now \in NowSet, random \in RandomSet}
PlaceObject(type, point, ids) ==
  /\ Len(objects) < MaxListLength
  /\ objects' = IF type = "gripper" THEN objects
                ELSE objects \o createObjectAtPoint(type, point, ids)
  /\ last' = Step("addObject")
  /\ UNCHANGED << paths, simulation, collisions, visibility, completions, frames, probe >>

\* The objects arrays of the scene files: those of the scenes, and one
\* whose JSON text has two objects with the same id.
ImportedScenes ==
  { << Obstacle1, Camera1, Obstacle2 >>, << Obstacle1, [Obstacle2 EXCEPT !.id = "o1"] >> }
EditedIds == {"o1"} \cup CreatedIds
EditSet == { [position |-> createVector3(2 * One, 0, 2 * One)] }
NextEdit ==
  \/ \E delta \in DeltaSet : Frame(delta)
  \/ \E scene \in ImportedScenes : SetObjects(scene)
  \/ \E type \in PlacedTypes, point \in ClickPoints, ids \in CreatedIds \X CreatedIds :
       PlaceObject(type, point, ids)
  \/ \E id \in EditedIds : RemoveObject(id)
  \/ \E id \in EditedIds, updates \in EditSet : UpdateObject(id, updates)
SpecEdit == Init /\ [][NextEdit]_vars

(***************************************************************************)
(* A frame callback by callback.  react-three-fiber calls the useFrame     *)
(* callbacks of one priority in the order they subscribed, which is the    *)
(* order SceneContent mounts the system components.  probe holds the       *)
(* object list and the simulation data the components rendered with (the   *)
(* store when the frame starts), which every callback of the frame reads,  *)
(* and the callbacks that have run in the frame so far.                    *)
(***************************************************************************)
\* The system components in the order SceneContent mounts them.
FrameOrder ==
  << "RobotMovementSystem", "CameraSystem", "GripperSystem",
     "VisionValidationSystem", "CollisionDetector" >>
Rendered(objs, sim) == [fn |-> "useFrame", objects |-> objs, simulation |-> sim, ran |-> << >>]
FrameDone == Len(probe.ran) = Len(FrameOrder)
\* The callback react-three-fiber calls next, "none" when all have run.
NextCallback == IF FrameDone THEN "none" ELSE FrameOrder[Len(probe.ran) + 1]
Ran(system) == probe' = [probe EXCEPT !.ran = Append(@, system)]

InitOrder ==
  /\ objects \in SceneSet
  /\ paths \in {<< path >> : path \in PathCatalogue}
  /\ simulation \in {InitialSimulation, startSimulation("p1")}
  /\ collisions = << >>
  /\ visibility = [cameraId \in {} |-> << >>]
  /\ completions = 0
  /\ frames = 0
  /\ last = Step("other")
  /\ probe = Rendered(objects, simulation)

\* The components render with the store's values before the next frame.
Render ==
  /\ FrameDone
  /\ frames < MaxFrames
  /\ frames' = frames + 1
  /\ probe' = Rendered(objects, simulation)
  /\ last' = Step("other")
  /\ UNCHANGED << objects, paths, simulation, collisions, visibility, completions >>

Moved(mv) ==
  /\ objects' = mv.objects
  /\ simulation' = mv.simulation
  /\ completions' = Min(completions + mv.completed, 2)
  /\ last' = [op |-> "frame", moved |-> mv.moved,
              completed |-> mv.completed, escaped |-> mv.escaped]
UseFrameRobotMovementSystem(delta) ==
  /\ NextCallback = "RobotMovementSystem"
  /\ Moved(RobotMovementSystem(probe.objects, paths, probe.simulation, delta))
  /\ Ran("RobotMovementSystem")
  /\ UNCHANGED << paths, collisions, visibility, frames >>
UseFrameCameraSystem ==
  /\ NextCallback = "CameraSystem"
  /\ objects' = CameraSystem(filterCameras(probe.objects), probe.objects, objects)
  /\ Ran("CameraSystem")
  /\ UNCHANGED << paths, simulation, collisions, visibility, completions, frames, last >>
UseFrameGripperSystem ==
  /\ NextCallback = "GripperSystem"
  /\ objects' = GripperSystem(filterGrippers(probe.objects), probe.objects, objects)
  /\ Ran("GripperSystem")
  /\ UNCHANGED << paths, simulation, collisions, visibility, completions, frames, last >>
UseFrameVisionValidationSystem ==
  /\ NextCallback = "VisionValidationSystem"
  /\ visibility' = VisionValidationSystem(filterCameras(probe.objects), probe.objects, visibility)
  /\ Ran("VisionValidationSystem")
  /\ UNCHANGED << objects, paths, simulation, collisions, completions, frames, last >>
UseFrameCollisionDetector ==
  /\ NextCallback = "CollisionDetector"
  /\ collisions' = CollisionDetector(filterRobots(probe.objects), probe.objects, << >>)
  /\ Ran("CollisionDetector")
  /\ UNCHANGED << objects, paths, simulation, visibility, completions, frames, last >>
NextOrder ==
  \/ Render
  \/ \E delta \in DeltaSet : UseFrameRobotMovementSystem(delta)
  \/ UseFrameCameraSystem
  \/ UseFrameGripperSystem
  \/ UseFrameVisionValidationSystem
  \/ UseFrameCollisionDetector
SpecOrder == InitOrder /\ [][NextOrder]_vars

(***************************************************************************)
(* Playback: a scene and one path are in the store, and the user starts    *)
(* the simulation on that path or on a path id the store has no path for,  *)
(* pauses and stops it, sets progress and speed and deletes the path and   *)
(* the robot, while frames are rendered.  probe keeps the argument of the  *)
(* last startSimulation call.                                              *)
(***************************************************************************)
StartedPathIds == {"p1", "p2"}
PlaybackPaths == {PathOf("p1", n, loop) : n \in {1, 2}, loop \in BOOLEAN}
\* pathSlice.removePath, on a path list
removePath(pathList, id) == LET Kept(path) == path.id # id IN SelectSeq(pathList, Kept)
RemovePath(id) ==
  /\ paths' = removePath(paths, id)
  /\ last' = Step("removePath")
  /\ UNCHANGED << objects, simulation, collisions, visibility, completions, frames, probe >>
StartSimulationOn(pathId) ==
  /\ simulation' = startSimulation(pathId)
  /\ completions' = 0
  /\ last' = Step("startSimulation")
  /\ probe' = [fn |-> "startSimulation", pathId |-> pathId]
  /\ UNCHANGED << objects, paths, collisions, visibility, frames >>
\* pauseSimulation and setSimulationProgress called from outside a frame,
\* the call recorded in last.
PauseSimulationCall ==
  /\ simulation' = pauseSimulation(simulation)
  /\ last' = Step("pauseSimulation")
  /\ UNCHANGED << objects, paths, collisions, visibility, completions, frames, probe >>
SetSimulationProgressCall(progress) ==
  /\ simulation' = setSimulationProgress(simulation, progress)
  /\ last' = Step("setSimulationProgress")
  /\ UNCHANGED << objects, paths, collisions, visibility, completions, frames, probe >>
InitPlayback ==
  /\ objects = << Robot1, Gripper1, Camera1, Obstacle1 >>
  /\ paths \in {<< path >> : path \in PlaybackPaths}
  /\ simulation = InitialSimulation
  /\ collisions = << >>
  /\ visibility = [cameraId \in {} |-> << >>]
  /\ completions = 0
  /\ frames = 0
  /\ last = Step("other")
  /\ probe = NoProbe
NextPlayback ==
  \/ \E delta \in DeltaSet : Frame(delta)
  \/ \E pathId \in StartedPathIds : StartSimulationOn(pathId)
  \/ PauseSimulationCall
  \/ StopSimulation
  \/ \E progress \in {Half} : SetSimulationProgressCall(progress)
  \/ \E speed \in {2 * One} : SetSimulationSpeed(speed)
  \/ RemovePath("p1")
  \/ RemoveObject("r1")
SpecPlayback == InitPlayback /\ [][NextPlayback]_vars

(***************************************************************************)
(* Fleet: scenes with several robots, two of them assigned to the same     *)
(* path, and a scene whose robot has no path.                              *)
(***************************************************************************)
RobotOf(id, x, pathId) ==
  SceneObject(id, "robot", createVector3(x * One, Half, 2 * One), "none",
              [NoProps EXCEPT !.pathId = pathId])
FleetScenes ==
  { << Obstacle1, RobotOf("r0", 4, "p2"), Robot1, Gripper1, RobotOf("r3", 6, "p1"), Camera1 >>,
    << RobotOf("r0", 4, NoId), Obstacle1, Camera1 >> }
FleetPaths == {PathOf("p1", n, loop) : n \in {2, 3}, loop \in BOOLEAN}
FleetDeltas == {One}
InitFleet ==
  /\ objects \in FleetScenes
  /\ paths \in {<< path >> : path \in FleetPaths}
  /\ simulation = InitialSimulation
  /\ collisions = << >>
  /\ visibility = [cameraId \in {} |-> << >>]
  /\ completions = 0
  /\ frames = 0
  /\ last = Step("other")
  /\ probe = NoProbe
NextFleet ==
  \/ \E delta \in FleetDeltas : Frame(delta)
  \/ StartSimulationOn("p1")
  \/ StopSimulation
  \/ \E speed \in {0, 2 * One} : SetSimulationSpeed(speed)
SpecFleet == InitFleet /\ [][NextFleet]_vars

(***************************************************************************)
(* Unattended playback: the simulation was started on a path a robot is    *)
(* assigned to, a speed was chosen, and from then on frames are rendered   *)
(* and the user does nothing.  The renderer keeps calling the useFrame     *)
(* callbacks, so a frame that can change the store is eventually rendered. *)
(***************************************************************************)
LivePaths == {PathOf("p1", n, loop) : n \in 1..4, loop \in BOOLEAN}
LiveSpeeds == {MinSpeed, Half, 2 * One}
LiveDeltas == {Lit(1, 4), One}
\* The render loop requests the next animation frame in every frame, so the
\* frame count keeps changing; frames holds its parity.
FrameTick == frames' = (frames + 1) % 2
\* A rendered frame.
RenderedFrame(delta) ==
  /\ FrameTick
  /\ FrameAfterMovement(RobotMovementSystem(objects, paths, simulation, delta))
  /\ UNCHANGED << paths, probe >>
InitLive ==
  /\ objects = << Robot1, Gripper1 >>
  /\ paths \in {<< path >> : path \in LivePaths}
  /\ simulation \in {setSimulationSpeed(startSimulation("p1"), speed) : speed \in LiveSpeeds}
  /\ collisions = << >>
  /\ visibility = [cameraId \in {} |-> << >>]
  /\ completions = 0
  /\ frames = 0
  /\ last = Step("other")
  /\ probe = NoProbe
NextLive == \E delta \in LiveDeltas : RenderedFrame(delta)
SpecLive == InitLive /\ [][NextLive]_vars /\ WF_frames(FrameTick)

(***************************************************************************)
(* A robot placed by a click on the ground, with the gripper the factory   *)
(* creates for it and nothing else in the scene.  The robot may have been  *)
(* assigned to the path; the user drags it, starts the simulation, and     *)
(* frames are rendered.                                                    *)
(***************************************************************************)
GripPoints ==
  { createVector3(0, 0, -5 * One),
    createVector3(Lit(1, 3), 0, Lit(7, 10)),
    createVector3(-3 * One, 0, Lit(1, 5)) }
GripIds == << createId("17", "k3"), createId("17", "p0") >>
GripMoves ==
  { [position |-> createVector3(2 * One, Half, 2 * One)],
    [position |-> createVector3(Lit(1, 3), Lit(1, 5), -One)] }
\* The pair handleClick adds, the robot assigned to pathId through updateObject.
PlacedPair(point, pathId) ==
  LET made == createObjectAtPoint("robot", point, GripIds) IN
  updateObject(made, made[1].id,
               [properties |-> [made[1].properties EXCEPT !.pathId = pathId]])
InitGrip ==
  /\ objects \in {PlacedPair(point, pathId) : point \in GripPoints, pathId \in {NoId, "p1"}}
  /\ paths = << PathOf("p1", 3, FALSE) >>
  /\ simulation = InitialSimulation
  /\ collisions = << >>
  /\ visibility = [cameraId \in {} |-> << >>]
  /\ completions = 0
  /\ frames = 0
  /\ last = Step("other")
  /\ probe = NoProbe
NextGrip ==
  \/ \E delta \in FleetDeltas : Frame(delta)
  \/ \E updates \in GripMoves : UpdateObject(GripIds[1], updates)
  \/ StartSimulationOn("p1")
SpecGrip == InitGrip /\ [][NextGrip]_vars

(***************************************************************************)
(* interpolatePath called on its own: one call per behaviour, on a path of *)
(* the catalogue (open or closed, of every length up to the bound) at a    *)
(* progress below, in and above [0, 1], or NaN.                            *)
(***************************************************************************)
ProbePaths == {PathOf("p1", n, loop) : n \in 0..MaxWaypoints, loop \in BOOLEAN}
ProbeProgressSet ==
  {-One, 0, Lit(1, 4), Lit(1, 3), Half, Lit(3, 4), One, 3 * One, NaN}

InitInterp ==
  /\ InitStore
  /\ probe \in {[fn |-> "interpolatePath", path |-> path, progress |-> progress,
                 returned |-> FALSE, result |-> Thrown("none")] :
                  path \in ProbePaths, progress \in ProbeProgressSet}

Interpolate ==
  /\ probe.fn = "interpolatePath"
  /\ ~probe.returned
  /\ probe' = [probe EXCEPT !.returned = TRUE,
                            !.result = interpolatePath(probe.path, probe.progress)]
  /\ UNCHANGED storeVars

NextInterp == Interpolate

SpecInterp == InitInterp /\ [][NextInterp]_vars

\* The pose of a waypoint as a normal return of interpolatePath.
\* Box intersection on its own: the initial state draws two boxes, the one
\* action applies checkAABBCollision to them in both argument orders.
BoxCoords == {-One, 0, One}
Corners == {createVector3(x, y, z) : x \in BoxCoords, y \in BoxCoords, z \in BoxCoords}
BoxSet ==
  {[min |-> lo, max |-> hi] : lo \in Corners, hi \in Corners} \cap
  {b \in [min : Corners, max : Corners] :
     b.min.x <= b.max.x /\ b.min.y <= b.max.y /\ b.min.z <= b.max.z}
InitBoxes ==
  /\ InitStore
  /\ probe \in {[fn |-> "checkAABBCollision", box1 |-> a, box2 |-> b,
                  returned |-> FALSE, result |-> FALSE, swapped |-> FALSE] :
                 a \in BoxSet, b \in BoxSet}
Intersect ==
  /\ probe.fn = "checkAABBCollision"
  /\ ~probe.returned
  /\ probe' = [probe EXCEPT !.returned = TRUE,
                            !.result = checkAABBCollision(probe.box1, probe.box2),
                            !.swapped = checkAABBCollision(probe.box2, probe.box1)]
  /\ UNCHANGED storeVars
NextBoxes == Intersect
SpecBoxes == InitBoxes /\ [][NextBoxes]_vars

\* findCollidingObjects on its own: the initial state draws an object and
\* an object list, the one action applies findCollidingObjects to them.
\* The list may hold the object itself and several objects of one id.
MaxObjects == 3
ProbeIds == {"a", "b", "c"}
\* A robot, an obstacle whose box overlaps the robot's, and an obstacle
\* whose box touches only the first obstacle's.
ProbeShapes ==
  { [type |-> "robot", position |-> ZeroVec],
    [type |-> "obstacle", position |-> createVector3(Half, 0, 0)],
    [type |-> "obstacle", position |-> createVector3(3 * Half, 0, 0)] }
ProbeObjects ==
  {SceneObject(id, sh.type, sh.position, "none", NoProps) : id \in ProbeIds, sh \in ProbeShapes}
ProbeLists == UNION {[1..n -> ProbeObjects] : n \in 0..MaxObjects}
InitColliders ==
  /\ InitStore
  /\ probe \in {[fn |-> "findCollidingObjects", object |-> o, allObjects |-> all,
                  returned |-> FALSE, result |-> << >>] :
                 o \in ProbeObjects, all \in ProbeLists}
FindColliders ==
  /\ probe.fn = "findCollidingObjects"
  /\ ~probe.returned
  /\ probe' = [probe EXCEPT !.returned = TRUE,
                            !.result = findCollidingObjects(probe.object, probe.allObjects)]
  /\ UNCHANGED storeVars
NextColliders == FindColliders
SpecColliders == InitColliders /\ [][NextColliders]_vars

\* The collision detector's pass on its own: the initial state draws the
\* object list the callback reads, the one action runs the callback's
\* computation of the array it hands to setCollisions.
InitDetector ==
  /\ InitStore
  /\ probe \in {[fn |-> "CollisionDetector", allObjects |-> all,
                  returned |-> FALSE, result |-> << >>] : all \in ProbeLists}
Detect ==
  /\ probe.fn = "CollisionDetector"
  /\ ~probe.returned
  /\ probe' = [probe EXCEPT !.returned = TRUE,
                            !.result = CollisionDetector(filterRobots(probe.allObjects),
                                                         probe.allObjects, << >>)]
  /\ UNCHANGED storeVars
NextDetector == Detect
SpecDetector == InitDetector /\ [][NextDetector]_vars

\* Bounding boxes on their own: the initial state draws two objects, the
\* second placed relative to the first; the one action computes the box of
\* each and whether they collide.  The objects differ in type (one of them
\* a type the switch does not name), scale, position, rotation, camera type
\* and properties.
BoundsTypes == {"camera", "bin", "obstacle", "robot", "gripper", "light"}
BoundsScales == {UnitScale, createVector3(2 * One, One, Half)}
BoundsPositions ==
  {ZeroVec, createVector3(One, Half, One), createVector3(400 * One, 0, -7 * One)}
BoundsRotations == {ZeroVec, createVector3(0, One, Half)}
BoundsOffsets ==
  {ZeroVec, createVector3(One, 0, 0), createVector3(10 * One, One, 0)}
    \cup {createVector3(d, 0, 0) : d \in {-10 * One, 10 * One}}
    \cup {createVector3(0, d, 0) : d \in {-10 * One, 10 * One}}
    \cup {createVector3(0, 0, d) : d \in {-10 * One, 10 * One}}
BoundsFirst ==
  {[SceneObject("a", type, position, IF type = "camera" THEN "eye-to-hand" ELSE "none",
                IF type = "gripper" THEN [NoProps EXCEPT !.parentRobotId = "b"] ELSE NoProps)
      EXCEPT !.scale = scale, !.rotation = rotation] :
     type \in BoundsTypes, position \in BoundsPositions,
     scale \in BoundsScales, rotation \in BoundsRotations}
BoundsSecond(first) ==
  {[SceneObject("b", type,
                createVector3(FAdd(first.position.x, offset.x),
                              FAdd(first.position.y, offset.y),
                              FAdd(first.position.z, offset.z)),
                "none", NoProps)
      EXCEPT !.scale = scale] :
     type \in {"obstacle", "robot"}, offset \in BoundsOffsets, scale \in BoundsScales}
InitBounds ==
  /\ InitStore
  /\ probe \in {[fn |-> "getObjectBoundingBox", first |-> pair[1], second |-> pair[2],
                  returned |-> FALSE, box1 |-> << >>, box2 |-> << >>, hit |-> FALSE] :
                 pair \in UNION {{<< a, b >> : b \in BoundsSecond(a)} : a \in BoundsFirst}}
Bound ==
  /\ probe.fn = "getObjectBoundingBox"
  /\ ~probe.returned
  /\ probe' = [probe EXCEPT !.returned = TRUE,
                            !.box1 = getObjectBoundingBox(probe.first),
                            !.box2 = getObjectBoundingBox(probe.second),
                            !.hit = checkObjectCollision(probe.first, probe.second)]
  /\ UNCHANGED storeVars
NextBounds == Bound
SpecBounds == InitBounds /\ [][NextBounds]_vars

\* isObjectVisible and calculateVisibilityPercentage on their own: the
\* initial state draws an object and a camera, the one action calls both.
\* The objects lie in front of the camera, across the far plane, behind
\* the camera and off to the side, at scale 1 and at a scale that makes
\* the box enclose the whole frustum; the cameras differ in position,
\* rotation, field of view and resolution.
VisionPositions ==
  {createVector3(0, 0, -5 * One), createVector3(0, 0, Lit(-52, 5)),
   createVector3(0, 0, 5 * One), createVector3(20 * One, 0, -5 * One)}
VisionScales == {UnitScale, createVector3(100 * One, 100 * One, 100 * One)}
VisionObjects ==
  {[SceneObject("a", type, position, "none", NoProps) EXCEPT !.scale = scale] :
     type \in {"obstacle", "robot"}, position \in VisionPositions, scale \in VisionScales}
WideSquareLens == [fov |-> 90 * One, resolution |-> [width |-> 1000, height |-> 1000]]
VisionCameras ==
  {[SceneObject("c", "camera", position, "eye-to-hand", properties)
      EXCEPT !.rotation = rotation] :
     position \in {ZeroVec, createVector3(5 * One, 0, 0)},
     rotation \in {ZeroVec, createVector3(0, One, 0)},
     properties \in {NoProps, Spread(NoProps, WideSquareLens)}}
InitVision ==
  /\ InitStore
  /\ probe \in {[fn |-> "isObjectVisible", object |-> object, camera |-> camera,
                  returned |-> FALSE, visible |-> FALSE, fraction |-> 0] :
                 object \in VisionObjects, camera \in VisionCameras}
See ==
  /\ probe.fn = "isObjectVisible"
  /\ ~probe.returned
  /\ probe' = [probe EXCEPT !.returned = TRUE,
                            !.visible = isObjectVisible(probe.object, probe.camera),
                            !.fraction =
                              calculateVisibilityPercentage(probe.object, probe.camera)]
  /\ UNCHANGED storeVars
NextVision == See
SpecVision == InitVision /\ [][NextVision]_vars

\* One pass of the systems that place attachments, on its own: the
\* initial state draws an object list, the one action runs the camera
\* system and then the gripper system over it, each reading the list as
\* it was before the pass.  The repository holds two CameraSystem
\* components; which of them the pass runs is drawn with the list.
\* The list holds two robots, a gripper, a camera and an obstacle; the
\* first robot varies in position, rotation, end-effector offset and
\* gripper id, the gripper and the camera in the parent they name (either
\* robot, none, the obstacle, an id no object has), the camera in its
\* type, and the gripper is in the list or not.
AttachPositions == {ZeroVec, createVector3(One, Half, One)}
AttachRotations == {ZeroVec, createVector3(0, One, 0)}
AttachOffsets ==
  {<< >>, << createVector3(0, One, 0) >>, << createVector3(One, 0, Half) >>}
AttachParents == {"r1", "r2", NoId, "o1", "r9"}
AttachRobots ==
  {[SceneObject("r1", "robot", position, "none",
                [NoProps EXCEPT !.gripperId = gripperId, !.endEffectorOffset = offset])
      EXCEPT !.rotation = rotation] :
     position \in AttachPositions, rotation \in AttachRotations,
     offset \in AttachOffsets, gripperId \in {NoId, "g1"}}
Robot2 ==
  [SceneObject("r2", "robot", createVector3(7 * One, 0, 7 * One), "none", NoProps)
     EXCEPT !.rotation = createVector3(0, 0, Half)]
AttachGrippers ==
  {<< >>} \cup
  {<< [SceneObject("g1", "gripper", createVector3(5 * One, 5 * One, 5 * One), "none",
                   [NoProps EXCEPT !.parentRobotId = parent])
         EXCEPT !.rotation = createVector3(Half, 0, 0)] >> : parent \in AttachParents}
AttachCameras ==
  {[SceneObject("c1", "camera", createVector3(3 * One, Half, 3 * One), cameraType,
                [NoProps EXCEPT !.parentRobotId = parent])
      EXCEPT !.rotation = createVector3(0, 0, One)] :
     cameraType \in {"eye-in-hand", "eye-to-hand"}, parent \in AttachParents}
AttachLists ==
  {<< robot, Robot2 >> \o gripper \o << camera, Obstacle1 >> :
     robot \in AttachRobots, gripper \in AttachGrippers, camera \in AttachCameras}
CameraSystemFiles == {"CameraSystem.tsx", "part_013"}
InitAttach ==
  /\ InitStore
  /\ probe \in {[fn |-> "attach", allObjects |-> all, cameraSystem |-> file,
                  returned |-> FALSE, result |-> << >>] :
                 all \in AttachLists, file \in CameraSystemFiles}
\* A camera system that takes every camera for an eye-in-hand camera.
camerasPlacedAnyType(file, all) ==
  CameraSystemViaRobots(
    filterCameras([i \in DOMAIN all |-> [all[i] EXCEPT !.cameraType = "eye-in-hand"]]),
    all, all)
camerasPlaced(file, all) ==
  IF file = "part_013"
    THEN CameraSystemViaRobots(filterCameras(all), all, all)
    ELSE CameraSystem(filterCameras(all), all, all)
Attach ==
  /\ probe.fn = "attach"
  /\ ~probe.returned
  /\ probe' = [probe EXCEPT !.returned = TRUE,
                            !.result =
                              GripperSystem(filterGrippers(probe.allObjects),
                                            probe.allObjects,
                                            camerasPlaced(probe.cameraSystem,
                                                          probe.allObjects))]
  /\ UNCHANGED storeVars
NextAttach == Attach
SpecAttach == InitAttach /\ [][NextAttach]_vars

(***************************************************************************)
(* interpolatePath called at the segment boundaries and inside the         *)
(* segments of a path of two or more waypoints: at k / S, at               *)
(* (2k + 1) / (2S), the middle of segment k, and at 1, each quotient       *)
(* computed as the caller's division computes it.                          *)
(***************************************************************************)
segmentCountOf(path) == Len(path.waypoints) - (IF path.loop THEN 0 ELSE 1)
\* A path of ten segments, whose segment length is the rounded 1/10.
LongWaypoints == 11
SegmentPaths ==
  {path \in ProbePaths : Len(path.waypoints) >= 2} \cup {PathOf("p1", LongWaypoints, FALSE)}
SegmentCalls ==
  {[fn |-> "interpolatePath", path |-> path, segment |-> k, inside |-> inside,
    progress |-> IF inside THEN FDiv((2 * k + 1) * One, 2 * segmentCountOf(path) * One)
                           ELSE FDiv(k * One, segmentCountOf(path) * One),
    returned |-> FALSE, result |-> Thrown("none")] :
     path \in SegmentPaths, k \in 0..LongWaypoints, inside \in BOOLEAN}
InitSegments ==
  /\ InitStore
  /\ probe \in {call \in SegmentCalls :
                  \/ call.segment < segmentCountOf(call.path)
                  \/ call.segment = segmentCountOf(call.path) /\ ~call.inside /\ call.path.loop}
NextSegments == Interpolate
SpecSegments == InitSegments /\ [][NextSegments]_vars

PoseOf(waypoint) ==
  [err |-> "none", position |-> waypoint.position, rotation |-> waypoint.rotation]

\* C7: on a non-looping path of at least two waypoints interpolatePath
\* returns exactly the first waypoint's position and rotation at progress 0
\* and below, and exactly the last waypoint's at progress 1 and above.
C7_EndpointsExact ==
  (probe.returned /\ ~probe.path.loop /\ Len(probe.path.waypoints) >= 2)
    => /\ FLe(probe.progress, 0) => probe.result = PoseOf(probe.path.waypoints[1])
       /\ FGe(probe.progress, One)
            => probe.result = PoseOf(probe.path.waypoints[Len(probe.path.waypoints)])

\* C7: interpolatePath has returned from a non-looping path of six waypoints
\* at a progress above 1.
C7_Witness ==
  /\ probe.returned
  /\ ~probe.path.loop
  /\ Len(probe.path.waypoints) = 6
  /\ probe.progress = 3 * One

(***************************************************************************)
(* Properties                                                              *)
(***************************************************************************)
\* The objects of the list that satisfy a test, as a set.
ObjectsWhere(objs, Test(_)) == {objs[i] : i \in {j \in DOMAIN objs : Test(objs[j])}}
ObjectById(objs, id) == CHOOSE o \in ObjectsWhere(objs, LAMBDA o : o.id = id) : TRUE
\* The last step was a frame in which the path moved a robot.
MovedByPath == last.op = "frame" /\ last.moved # NoId
\* The end-effector position of a robot position, default offset.
EndEffectorOf(position) ==
  [x |-> position.x, y |-> FAdd(position.y, Lit(3, 4)), z |-> position.z]
\* The ids of the objects whose box meets the box of some robot, and of
\* those robots, from an object list.
CollidingIds(objs) ==
  LET Meets(a, b) == a.id # b.id /\ checkObjectCollision(a, b)
      robots == ObjectsWhere(objs, LAMBDA o : o.type = "robot")
      all == ObjectsWhere(objs, LAMBDA o : TRUE)
  IN {r.id : r \in {q \in robots : \E o \in all : Meets(q, o)}}
       \cup {o.id : o \in {q \in all : \E r \in robots : Meets(r, q)}}
SeqToSet(seq) == {seq[i] : i \in DOMAIN seq}

\* C1: after a frame in which the simulation is playing and the path moves
\* the robot, every gripper and eye-in-hand camera attached to that robot is
\* at the end-effector position of the robot position written in that same
\* frame, and the colliding-id set written in that frame is the one of the
\* positions the frame leaves in the store.
C1_SameFramePositions ==
  MovedByPath =>
    LET robot == ObjectById(objects, last.moved)
        Attached(o) ==
          /\ o.properties.parentRobotId = robot.id
          /\ o.type = "gripper" \/ (o.type = "camera" /\ o.cameraType = "eye-in-hand")
    IN /\ \A o \in ObjectsWhere(objects, Attached) :
            /\ o.position = EndEffectorOf(robot.position)
            /\ o.rotation = robot.rotation
       /\ SeqToSet(collisions) = CollidingIds(objects)

\* C1: a frame has moved a robot that carries a gripper onto the second
\* waypoint.
C1_Witness ==
  /\ MovedByPath
  /\ \E i \in DOMAIN objects :
       /\ objects[i].type = "gripper"
       /\ objects[i].properties.parentRobotId = last.moved
  /\ ObjectById(objects, last.moved).position.x = 10 * One

\* The simulation is playing on a path of the store that has waypoints and
\* a robot assigned to it.
PlayingOnPath ==
  /\ simulation.state = "playing"
  /\ paths # << >>
  /\ simulation.currentPathId = paths[1].id
  /\ Len(paths[1].waypoints) >= 1
  /\ ObjectsWhere(objects, LAMBDA o : o.type = "robot" /\ o.properties.pathId = paths[1].id) # {}
\* The progress a frame of `delta` seconds adds, and current progress + it.
ProgressDeltaOf(delta) ==
  FDiv(FMul(FMul(delta, paths[1].speed), simulation.speed),
       Max(Len(paths[1].waypoints) - 1, 1) * One)
ProgressAfter(delta) == FAdd(simulation.progress, ProgressDeltaOf(delta))
LastWaypoint == paths[1].waypoints[Len(paths[1].waypoints)]
AssignedRobot(objs) ==
  CHOOSE o \in ObjectsWhere(objs, LAMBDA o : o.type = "robot" /\ o.properties.pathId = paths[1].id) : TRUE

\* C2: a frame that takes a playing simulation on a non-looping path to or
\* past full traversal (current progress + delta >= 1) leaves the simulation
\* idle, signals completion, and leaves the robot of the path exactly at the
\* last waypoint's position and rotation.
C2_CompletionAtLastWaypoint ==
  [][\A delta \in DeltaSet :
       (Frame(delta) /\ PlayingOnPath /\ ~paths[1].loop /\ FGe(ProgressAfter(delta), One))
         => /\ simulation'.state = "idle"
            /\ last'.completed = 1
            /\ AssignedRobot(objects').position = LastWaypoint.position
            /\ AssignedRobot(objects').rotation = LastWaypoint.rotation]_vars

\* C2: a frame has completed a non-looping path of more than one waypoint.
C2_Witness ==
  /\ last.op = "frame"
  /\ last.completed = 1
  /\ simulation.state = "idle"
  /\ Len(paths[1].waypoints) >= 2

\* Arguments for calculateNextProgress away from the store.
CurrentSet == {0, Lit(1, 4), Half, Lit(9, 10), One}
ProgressDeltaSet == {0, Lit(1, 10), Lit(2, 10), Half, One, Lit(5, 2)}
\* What nextProgress is to do with current + delta = next: `got` is what it
\* returned and how often it called onComplete.
NextProgressAsSpecified(current, delta, loop, got) ==
  LET next == FAdd(current, delta) IN
  /\ FLt(next, One) => got = [progress |-> next, completed |-> 0]
  /\ FGe(next, One) /\ loop => got = [progress |-> FMod(next, One), completed |-> 0]
  /\ FGe(next, One) /\ ~loop => got = [progress |-> One, completed |-> 1]

\* C3: calculateNextProgress returns current + delta without calling
\* onComplete below 1; from 1 on it returns (current + delta) mod 1 without
\* calling onComplete on a looping path, and exactly 1 with one call of
\* onComplete on a non-looping path; and over the frames of a run onComplete
\* is called at most once between two starts of the simulation.
C3_NextProgress ==
  /\ \A current \in CurrentSet, delta \in ProgressDeltaSet, loop \in BOOLEAN :
       NextProgressAsSpecified(current, delta, loop,
         calculateNextProgress(current, delta, PathOf("p1", 2, loop)))
  /\ [][\A delta \in DeltaSet :
          (Frame(delta) /\ PlayingOnPath)
            => /\ NextProgressAsSpecified(simulation.progress, ProgressDeltaOf(delta),
                    paths[1].loop,
                    [progress |-> simulation'.progress, completed |-> last'.completed])
               /\ completions' = completions + last'.completed
               /\ completions' <= 1]_vars

\* C3: onComplete has been called in an earlier frame, and a later frame has
\* run without calling it again.
C3_Witness ==
  /\ completions = 1
  /\ last.op = "frame"
  /\ last.completed = 0

C5_StopResets ==
  last.op = "stopSimulation"
    => /\ simulation.state = "idle"
       /\ simulation.progress = 0
       /\ simulation.currentPathId = NoId

\* C5: stopSimulation has just run on a simulation that frames had advanced
\* part of the way along its path.
C5_Witness ==
  /\ last.op = "stopSimulation"
  /\ completions = 0
  /\ \E i \in DOMAIN objects :
       /\ objects[i].type = "robot"
       /\ objects[i].position # Robot1.position
       /\ objects[i].position # LastWaypoint.position

\* s clamped to [0.1, 5]: 0.1 below the interval, 5 above it.
ClampedSpeed(s) == IF FLt(s, Lit(1, 10)) THEN Lit(1, 10) ELSE IF FGt(s, 5 * One) THEN 5 * One ELSE s

\* C6: the speed multiplier is 1 initially and lies in [0.1, 5] in every
\* reachable state, and setSimulationSpeed(s) stores s clamped to that
\* interval and leaves state, progress and currentPathId as they were.
C6_SpeedClamped ==
  /\ simulation.speed = One
  /\ [](FLe(Lit(1, 10), simulation.speed) /\ FLe(simulation.speed, 5 * One))
  /\ [][\A s \in SpeedSet :
          SetSimulationSpeed(s)
            => /\ simulation'.speed = ClampedSpeed(s)
               /\ simulation'.state = simulation.state
               /\ simulation'.progress = simulation.progress
               /\ simulation'.currentPathId = simulation.currentPathId]_vars

\* C6: setSimulationSpeed has stored the lower end of the interval for an
\* argument below it, on a simulation that is under way.
C6_Witness ==
  /\ simulation.speed = Lit(1, 10)
  /\ simulation.state = "playing"
  /\ simulation.progress # 0

\* C8: interpolatePath returns the waypoint of a one-waypoint path, looping
\* or not, unchanged at every progress; and a frame that finds the
\* simulation playing on such a path leaves the robot of the path at that
\* waypoint, with the progress advanced by delta * path speed * simulation
\* speed over a divisor of 1.
C8_SingleWaypoint ==
  /\ \A loop \in BOOLEAN, progress \in ProbeProgressSet :
       interpolatePath(PathOf("p1", 1, loop), progress) = PoseOf(WaypointAt(1))
  /\ [][\A delta \in DeltaSet :
          (Frame(delta) /\ PlayingOnPath /\ Len(paths[1].waypoints) = 1)
            => /\ AssignedRobot(objects').position = paths[1].waypoints[1].position
               /\ AssignedRobot(objects').rotation = paths[1].waypoints[1].rotation
               /\ NextProgressAsSpecified(simulation.progress,
                    FMul(FMul(delta, paths[1].speed), simulation.speed), paths[1].loop,
                    [progress |-> simulation'.progress, completed |-> last'.completed])]_vars

\* C8: a second playing frame has run on a looping path of one waypoint.
C8_Witness ==
  /\ last.op = "frame"
  /\ last.moved # NoId
  /\ frames >= 2
  /\ Len(paths[1].waypoints) = 1
  /\ paths[1].loop
  /\ simulation.state = "playing"

\* The simulation is playing on a path of the store that has no waypoints.
PlayingOnEmptyPath ==
  /\ simulation.state = "playing"
  /\ paths # << >>
  /\ simulation.currentPathId = paths[1].id
  /\ Len(paths[1].waypoints) = 0
\* A gripper or eye-in-hand camera that names a parent robot.
FollowsRobot(o) ==
  /\ o.properties.parentRobotId # NoId
  /\ o.type = "gripper" \/ (o.type = "camera" /\ o.cameraType = "eye-in-hand")
EmptyPathErrors ==
  \A loop \in BOOLEAN, progress \in ProbeProgressSet :
    interpolatePath(PathOf("p1", 0, loop), progress).err = "Error"

\* C9: interpolatePath signals an error on a path of no waypoints at every
\* progress; and a frame that finds the simulation playing on such a path
\* completes without an exception leaving the movement callback, writes no
\* robot pose and no simulation data, and changes no object other than the
\* grippers and eye-in-hand cameras that follow a robot.
C9_EmptyPathSkipsRobot ==
  /\ EmptyPathErrors
  /\ [][\A delta \in DeltaSet :
          (Frame(delta) /\ PlayingOnEmptyPath)
            => /\ ~last'.escaped
               /\ last'.moved = NoId
               /\ simulation' = simulation
               /\ \A i \in DOMAIN objects :
                    ~FollowsRobot(objects[i]) => objects'[i] = objects[i]]_vars

\* C9 as stated: such a frame leaves every object's position and rotation
\* unchanged.
C9_EmptyPathChangesNothing ==
  /\ EmptyPathErrors
  /\ [][\A delta \in DeltaSet :
          (Frame(delta) /\ PlayingOnEmptyPath)
            => /\ ~last'.escaped
               /\ \A i \in DOMAIN objects :
                    /\ objects'[i].position = objects[i].position
                    /\ objects'[i].rotation = objects[i].rotation]_vars

\* C9: a frame has run with the simulation playing on a path of no
\* waypoints, in a scene with a robot assigned to that path.
C9_Witness ==
  /\ last.op = "frame"
  /\ simulation.state = "playing"
  /\ paths # << >>
  /\ simulation.currentPathId = paths[1].id
  /\ Len(paths[1].waypoints) = 0
  /\ \E i \in DOMAIN objects :
       objects[i].type = "robot" /\ objects[i].properties.pathId = paths[1].id

\* The closed intervals [lo1, hi1] and [lo2, hi2] have a point in common.
IntervalsMeet(lo1, hi1, lo2, hi2) == Max(lo1, lo2) <= Min(hi1, hi2)

\* C10: checkAABBCollision is true exactly when the closed extents of the
\* two boxes meet on the x, the y and the z axis, boxes that share only a
\* face, an edge or a corner included, and it gives the same answer with
\* its arguments exchanged.
C10_ClosedIntervalSymmetric ==
  probe.returned =>
    /\ probe.result <=>
         /\ IntervalsMeet(probe.box1.min.x, probe.box1.max.x, probe.box2.min.x, probe.box2.max.x)
         /\ IntervalsMeet(probe.box1.min.y, probe.box1.max.y, probe.box2.min.y, probe.box2.max.y)
         /\ IntervalsMeet(probe.box1.min.z, probe.box1.max.z, probe.box2.min.z, probe.box2.max.z)
    /\ probe.result = probe.swapped

\* C10: two boxes that share exactly one corner were found to intersect.
C10_Witness ==
  /\ probe.returned
  /\ probe.result
  /\ probe.box1 = [min |-> createVector3(-One, -One, -One), max |-> ZeroVec]
  /\ probe.box2 = [min |-> ZeroVec, max |-> createVector3(One, One, One)]

\* The boxes of two objects meet on every axis.
BoxesMeet(a, b) ==
  LET p == getObjectBoundingBox(a)
      q == getObjectBoundingBox(b)
  IN /\ IntervalsMeet(p.min.x, p.max.x, q.min.x, q.max.x)
     /\ IntervalsMeet(p.min.y, p.max.y, q.min.y, q.max.y)
     /\ IntervalsMeet(p.min.z, p.max.z, q.min.z, q.max.z)
\* The positions of a list that hold another id than the object's and a box
\* that meets the object's.
ColliderPositions(object, all) ==
  {i \in DOMAIN all : all[i].id # object.id /\ BoxesMeet(object, all[i])}

\* C11: findCollidingObjects returns the elements of allObjects whose id
\* differs from the object's and whose box meets the object's box, each once
\* per position it holds in the list and in the order of the list; no
\* element of the result has the object's id.
C11_CollidersExact ==
  probe.returned =>
    LET at == ColliderPositions(probe.object, probe.allObjects)
    IN /\ Len(probe.result) = Cardinality(at)
       /\ \A i \in at :
            probe.result[Cardinality({j \in at : j <= i})] = probe.allObjects[i]
       /\ \A k \in DOMAIN probe.result : probe.result[k].id # probe.object.id

\* C11: the list held the queried object itself between two colliders and
\* an object that does not collide, and the two colliders came back.
C11_Witness ==
  /\ probe.returned
  /\ Len(probe.allObjects) = 3
  /\ probe.allObjects[2] = probe.object
  /\ Len(probe.result) = 2
  /\ probe.result = << probe.allObjects[1], probe.allObjects[3] >>
  /\ probe.result[1] # probe.result[2]

\* The ids a detector pass reports for an object list: every robot that has
\* a collider, and its colliders.
CollidingRobotsAndColliders(objs) ==
  UNION {{objs[i].id} \cup {objs[j].id : j \in ColliderPositions(objs[i], objs)} :
           i \in {k \in DOMAIN objs :
                    objs[k].type = "robot" /\ ColliderPositions(objs[k], objs) # {}}}
\* The same with every robot reported, colliding or not.
AllRobotsAndColliders(objs) ==
  UNION {{objs[i].id} \cup {objs[j].id : j \in ColliderPositions(objs[i], objs)} :
           i \in {k \in DOMAIN objs : objs[k].type = "robot"}}

C13_OnlyRobotContacts ==
  probe.returned =>
    LET all == probe.allObjects
        Robot(i) == all[i].type = "robot"
    IN /\ \A k \in DOMAIN probe.result :
            \E i, j \in DOMAIN all :
              /\ all[i].id = probe.result[k]
              /\ all[j].id # all[i].id
              /\ Robot(i) \/ Robot(j)
              /\ BoxesMeet(all[i], all[j])
       /\ (\A i \in DOMAIN all : ~Robot(i)) => probe.result = << >>

\* C13: the detector reported nothing for a list of two obstacles of
\* different ids whose boxes meet.
C13_Witness ==
  /\ probe.returned
  /\ Len(probe.allObjects) = 2
  /\ probe.allObjects[1].type = "obstacle"
  /\ probe.allObjects[2].type = "obstacle"
  /\ probe.allObjects[1].id # probe.allObjects[2].id
  /\ BoxesMeet(probe.allObjects[1], probe.allObjects[2])
  /\ probe.result = << >>

\* The half-extents of a type before scale.
HalfExtent(type) ==
  CASE type = "camera" -> createVector3(Lit(1, 4), Lit(1, 4), Lit(1, 4))
    [] type \in {"bin", "obstacle"} -> createVector3(Lit(1, 2), Lit(1, 2), Lit(1, 2))
    [] type = "robot" -> createVector3(Lit(2, 5), Lit(3, 4), Lit(2, 5))
    [] type = "gripper" -> createVector3(Lit(3, 20), Lit(3, 20), Lit(3, 10))
    [] OTHER -> createVector3(Lit(1, 2), Lit(1, 2), Lit(1, 2))
\* The box centred at a position that reaches the scaled half-extent of a
\* type to each side.
CentredBox(type, scale, position) ==
  LET h == HalfExtent(type) IN
  [min |-> [x |-> FSub(position.x, FMul(h.x, scale.x)),
            y |-> FSub(position.y, FMul(h.y, scale.y)),
            z |-> FSub(position.z, FMul(h.z, scale.z))],
   max |-> [x |-> FAdd(position.x, FMul(h.x, scale.x)),
            y |-> FAdd(position.y, FMul(h.y, scale.y)),
            z |-> FAdd(position.z, FMul(h.z, scale.z))]]
UnitObstacle(o) == o.type = "obstacle" /\ o.scale = UnitScale
\* Two positions are 10 units apart on some axis.
TenApart(p, q) ==
  \E d \in {-10 * One, 10 * One} :
    FSub(q.x, p.x) = d \/ FSub(q.y, p.y) = d \/ FSub(q.z, p.z) = d

\* C14: the box of an object is the box centred at its position with the
\* half-extents of its type times its scale, whatever its other fields; two
\* obstacles of scale 1 at one position collide, and two obstacles of scale
\* 1 whose positions are 10 units apart on an axis do not.
C14_BoxFromTypeScalePosition ==
  probe.returned =>
    /\ probe.box1 = CentredBox(probe.first.type, probe.first.scale, probe.first.position)
    /\ probe.box2 = CentredBox(probe.second.type, probe.second.scale, probe.second.position)
    /\ (UnitObstacle(probe.first) /\ UnitObstacle(probe.second))
         => /\ probe.first.position = probe.second.position => probe.hit
            /\ TenApart(probe.first.position, probe.second.position) => ~probe.hit

\* C14: two obstacles of scale 1 at x = 400 and x = 410, where the halves
\* of the extents round away, were found not to collide.
C14_Witness ==
  /\ probe.returned
  /\ UnitObstacle(probe.first)
  /\ UnitObstacle(probe.second)
  /\ probe.first.position.x = 400 * One
  /\ probe.second.position.x = 410 * One
  /\ probe.first.rotation # ZeroVec
  /\ ~probe.hit

\* Some point whose coordinates are each the least or the greatest of the
\* box on that axis lies in the frustum of the camera.
SomeCornerInFrustum(object, camera) ==
  LET box == getObjectBoundingBox(object) IN
  \E x \in {box.min.x, box.max.x}, y \in {box.min.y, box.max.y},
     z \in {box.min.z, box.max.z} :
    isPointInFrustum(createVector3(x, y, z), camera)
\* The box holds a point of the frustum: the point 5 in front of the lens
\* on the axis of the projection.
HoldsFrustumPoint(object, camera) ==
  LET box == getObjectBoundingBox(object)
      p == createVector3(0, 0, -5 * One)
  IN /\ isPointInFrustum(p, camera)
     /\ box.min.x < p.x /\ p.x < box.max.x
     /\ box.min.y < p.y /\ p.y < box.max.y
     /\ box.min.z < p.z /\ p.z < box.max.z

\* C15: an object is visible to a camera exactly when one of the eight
\* corners of its bounding box is in the camera's frustum, and the
\* visibility fraction is 1 when it is visible and 0 when it is not.
C15_VisibleIffCornerInFrustum ==
  probe.returned =>
    /\ probe.visible = SomeCornerInFrustum(probe.object, probe.camera)
    /\ probe.fraction = IF probe.visible THEN One ELSE 0

\* C15: a box that encloses the frustum, with every corner outside it, was
\* reported not visible with fraction 0.
C15_Witness ==
  /\ probe.returned
  /\ HoldsFrustumPoint(probe.object, probe.camera)
  /\ ~SomeCornerInFrustum(probe.object, probe.camera)
  /\ ~probe.visible
  /\ probe.fraction = 0

\* C15: a box across the far plane was reported visible.
C15_WitnessCornerInside ==
  /\ probe.returned
  /\ probe.object.position.z < -10 * One
  /\ probe.visible
  /\ probe.fraction = One

\* The ids, in list order, of the objects of the list that are not cameras
\* and are visible to the camera.
VisibleTo(objs, camera) ==
  LET Seen(o) == o.type # "camera" /\ isObjectVisible(o, camera)
      seen == SelectSeq(objs, Seen)
  IN [i \in DOMAIN seen |-> seen[i].id]
CamerasOf(objs) == {objs[i] : i \in {j \in DOMAIN objs : objs[j].type = "camera"}}
\* The visibility mapping of one frame over an object list: an entry for
\* each camera of the list and for nothing else.
FrameVisibility(objs) ==
  [id \in {camera.id : camera \in CamerasOf(objs)} |->
     VisibleTo(objs, CHOOSE camera \in CamerasOf(objs) : camera.id = id)]

\* C16: after every frame the visibility mapping is that frame's result:
\* one entry for each camera of the object list, holding the ids of the
\* objects other than cameras that the camera sees, and no other entry.
C16_VisibilityFullyReplaced ==
  [][\A delta \in DeltaSet : Frame(delta) => visibility' = FrameVisibility(objects')]_vars

\* C16: a frame has run and the mapping holds an entry for an id that no
\* object of the list has.
C16_Witness ==
  /\ last.op = "frame"
  /\ \E id \in DOMAIN visibility : \A i \in DOMAIN objects : objects[i].id # id

\* The entries of the cameras still in the list are those of the frame.
C16_CurrentCamerasReplaced ==
  [][\A delta \in DeltaSet :
       Frame(delta) =>
         \A id \in DOMAIN FrameVisibility(objects') :
           id \in DOMAIN visibility' /\ visibility'[id] = FrameVisibility(objects')[id]]_vars

\* The robots of a list that have the id.
RobotsWithId(objs, id) == {o \in SeqToSet(objs) : o.type = "robot" /\ o.id = id}
\* The position of a robot plus its end-effector offset, axis by axis, the
\* offset being (0, 0.75, 0) when the robot has none.
OffsetPosition(robot) ==
  LET offset == IF robot.properties.endEffectorOffset = << >>
                  THEN createVector3(0, Lit(3, 4), 0)
                  ELSE robot.properties.endEffectorOffset[1]
  IN createVector3(FAdd(robot.position.x, offset.x),
                   FAdd(robot.position.y, offset.y),
                   FAdd(robot.position.z, offset.z))
\* The object is at the end effector of the robot and turned as the robot.
AtEndEffectorOf(o, robot) ==
  o.position = OffsetPosition(robot) /\ o.rotation = robot.rotation

\* C17: after one pass every gripper whose parentRobotId is the id of a
\* robot of the list is at that robot's position plus the robot's
\* end-effector offset, taken in world axes, and has the robot's rotation.
C17_GripperAtEndEffector ==
  probe.returned =>
    \A i \in DOMAIN probe.result :
      probe.result[i].type = "gripper" =>
        \A robot \in RobotsWithId(probe.result, probe.result[i].properties.parentRobotId) :
          AtEndEffectorOf(probe.result[i], robot)

\* C17: a turned robot at (0, 0, 0) with offset (0, 1, 0) has, after the
\* pass, its gripper at (0, 1, 0) with the rotation of the robot.
C17_Witness ==
  /\ probe.returned
  /\ \E i, j \in DOMAIN probe.result :
       /\ probe.result[i].type = "robot"
       /\ probe.result[i].position = ZeroVec
       /\ probe.result[i].rotation # ZeroVec
       /\ probe.result[i].properties.endEffectorOffset = << createVector3(0, One, 0) >>
       /\ probe.result[j].type = "gripper"
       /\ probe.result[j].properties.parentRobotId = probe.result[i].id
       /\ probe.result[j].position = createVector3(0, One, 0)
       /\ probe.result[j].rotation = probe.result[i].rotation
       /\ probe.allObjects[j].position # probe.result[j].position

EyeInHand(o) == o.type = "camera" /\ o.cameraType = "eye-in-hand"
\* After the pass every eye-in-hand camera whose parentRobotId is the id
\* of a robot of the list is at that robot's end effector and turned as
\* the robot.
CamerasAtEndEffector ==
  \A i \in DOMAIN probe.result :
    EyeInHand(probe.result[i]) =>
      \A robot \in RobotsWithId(probe.result, probe.result[i].properties.parentRobotId) :
        AtEndEffectorOf(probe.result[i], robot)

\* C18: after one pass every eye-in-hand camera whose parentRobotId is the
\* id of a robot of the list is at that robot's position plus its
\* end-effector offset and has the robot's rotation, whether the robot
\* has a gripper or not.
C18_CameraAtEndEffector == probe.returned => CamerasAtEndEffector

\* C18: the pass has run on a list whose eye-in-hand camera names a robot
\* that has a gripper.
C18_Witness ==
  /\ probe.returned
  /\ \E i, j, k \in DOMAIN probe.result :
       /\ EyeInHand(probe.result[i])
       /\ probe.result[j].type = "robot"
       /\ probe.result[j].id = probe.result[i].properties.parentRobotId
       /\ probe.result[k].type = "gripper"
       /\ probe.result[k].id = probe.result[j].properties.gripperId
       /\ probe.result[i].position # OffsetPosition(probe.result[j])

\* With the CameraSystem of part_013 the cameras are at the end effector,
\* and with the one of CameraSystem.tsx they are when the robot names no
\* gripper.
C18_CameraAtEndEffectorWithoutGripper ==
  (/\ probe.returned
   /\ \/ probe.cameraSystem = "part_013"
      \/ \A i \in DOMAIN probe.allObjects : probe.allObjects[i].properties.gripperId = NoId)
    => CamerasAtEndEffector

\* The attachment has no parent, or a parent that is not a robot of the list.
Orphaned(o, objs) ==
  /\ o.type = "gripper" \/ EyeInHand(o)
  /\ \/ o.properties.parentRobotId = NoId
     \/ RobotsWithId(objs, o.properties.parentRobotId) = {}
FixedCamera(o) == o.type = "camera" /\ o.cameraType = "eye-to-hand"

\* C19: the pass ends without an error, and every gripper or eye-in-hand
\* camera whose parentRobotId is null or names no robot of the list, and
\* every eye-to-hand camera, has the position and rotation it had before.
C19_OrphansAndFixedCamerasUntouched ==
  probe.returned =>
    /\ Len(probe.result) = Len(probe.allObjects)
    /\ \A i \in DOMAIN probe.allObjects :
         (Orphaned(probe.allObjects[i], probe.allObjects) \/ FixedCamera(probe.allObjects[i]))
           => /\ probe.result[i].position = probe.allObjects[i].position
              /\ probe.result[i].rotation = probe.allObjects[i].rotation

\* C19: the pass has run over an eye-to-hand camera that names a robot of
\* the list and a gripper that names an object that is not a robot, and
\* moved neither.
C19_Witness ==
  /\ probe.returned
  /\ \E i, j \in DOMAIN probe.allObjects :
       /\ FixedCamera(probe.allObjects[i])
       /\ RobotsWithId(probe.allObjects, probe.allObjects[i].properties.parentRobotId) # {}
       /\ probe.result[i] = probe.allObjects[i]
       /\ probe.allObjects[j].type = "gripper"
       /\ probe.allObjects[j].properties.parentRobotId = "o1"
       /\ probe.result[j] = probe.allObjects[j]

\* The object is the earlier one with the fields merged in: it has the
\* fields of both, those of the update with the update's values and the
\* others as before.
MergedInto(before, updates, after) ==
  /\ DOMAIN after = DOMAIN before \cup DOMAIN updates
  /\ \A f \in DOMAIN updates : after[f] = updates[f]
  /\ \A f \in DOMAIN before \ DOMAIN updates : after[f] = before[f]

\* C20: updateObject merges the fields into the object with the id and
\* changes no other field of it, no other object, and neither the order
\* nor the length of the list; with an id no object has it changes
\* nothing.
C20_UpdateMergesOneObject ==
  [][\A id \in UpdatedIds, updates \in UpdateSet :
       UpdateObject(id, updates) =>
         /\ Len(objects') = Len(objects)
         /\ \A i \in DOMAIN objects :
              IF objects[i].id = id
                THEN MergedInto(objects[i], updates, objects'[i])
                ELSE objects'[i] = objects[i]
         /\ (\A i \in DOMAIN objects : objects[i].id # id) => objects' = objects]_vars

UniqueIds(objs) == \A i, j \in DOMAIN objs : objs[i].id = objs[j].id => i = j

\* C21: in every state of the editor, whatever scene files were loaded and
\* objects placed, edited and deleted and frames rendered, no two objects
\* of the list have the same id.
C21_UniqueIds == UniqueIds(objects)

\* C21: a frame has run on a list in which two objects have the same id.
C21_Witness ==
  /\ last.op = "frame"
  /\ \E i, j \in DOMAIN objects : i < j /\ objects[i].id = objects[j].id

\* C21: removeObject, updateObject and a frame keep the ids of a list
\* distinct when they were distinct.
C21_EditsKeepIdsDistinct ==
  [][(UniqueIds(objects) /\ last'.op \in {"frame", "other", "updateObject"} /\ objects # << >>)
       => UniqueIds(objects')]_vars


HasRun(system) == \E i \in DOMAIN probe.ran : probe.ran[i] = system
\* In the frame so far, `later` has run only if `earlier` had run before it.
RunsBefore(earlier, later) ==
  \A j \in DOMAIN probe.ran :
    probe.ran[j] = later => \E i \in 1..(j - 1) : probe.ran[i] = earlier

\* C22: within a frame robot movement runs before every attachment update,
\* every attachment update before collision detection, and collision
\* detection before visibility validation.
C22_FrameOrder ==
  /\ RunsBefore("RobotMovementSystem", "CameraSystem")
  /\ RunsBefore("RobotMovementSystem", "GripperSystem")
  /\ RunsBefore("CameraSystem", "CollisionDetector")
  /\ RunsBefore("GripperSystem", "CollisionDetector")
  /\ RunsBefore("CollisionDetector", "VisionValidationSystem")

\* C22: visibility validation has run in a frame in which collision
\* detection has not run yet, on a scene with a robot on a playing path.
C22_Witness ==
  /\ HasRun("VisionValidationSystem")
  /\ ~HasRun("CollisionDetector")
  /\ last.moved = "r1"

\* C22: the order the program has: movement, attachments, visibility
\* validation, collision detection.
C22_MountOrder ==
  /\ RunsBefore("RobotMovementSystem", "CameraSystem")
  /\ RunsBefore("RobotMovementSystem", "GripperSystem")
  /\ RunsBefore("CameraSystem", "VisionValidationSystem")
  /\ RunsBefore("GripperSystem", "VisionValidationSystem")
  /\ RunsBefore("VisionValidationSystem", "CollisionDetector")

\* When the callbacks of a frame have all run the store holds what Frame
\* computes from the store the frame started with.
FrameAsCallbacks ==
  FrameDone =>
    /\ objects = GripperSystem(filterGrippers(probe.objects), probe.objects,
                   CameraSystem(filterCameras(probe.objects), probe.objects,
                     RobotMovementSystem(probe.objects, paths, probe.simulation,
                                         5 * One).objects))
    /\ collisions = CollisionDetector(filterRobots(probe.objects), probe.objects, << >>)


\* Segment k of a path runs from waypoints[k mod N] to waypoints[(k+1) mod N].
SegmentStart(path, k) == path.waypoints[(k % Len(path.waypoints)) + 1]
SegmentEnd(path, k) == path.waypoints[((k + 1) % Len(path.waypoints)) + 1]
Between(c, a, b) == (a <= c /\ c <= b) \/ (b <= c /\ c <= a)
BetweenVectors(v, a, b) ==
  Between(v.x, a.x, b.x) /\ Between(v.y, a.y, b.y) /\ Between(v.z, a.z, b.z)
\* A rounding error: the last three digits of the largest coordinate of a path.
Tolerance == (10 * One) \div 2^(SigBits - 3)
NearNumber(a, b) == Abs(a - b) <= Tolerance
NearVector(v, w) == NearNumber(v.x, w.x) /\ NearNumber(v.y, w.y) /\ NearNumber(v.z, w.z)
\* Near, or near after a whole turn.
NearAngle(a, b) == NearNumber(a, b) \/ NearNumber(Abs(a - b), TwoPi)
NearRotation(v, w) == NearAngle(v.x, w.x) /\ NearAngle(v.y, w.y) /\ NearAngle(v.z, w.z)
\* progress / segmentLength is computed as exactly k, with remainder 0.
ExactQuotient(progress, segmentLength, k) ==
  Floor(FDiv(progress, segmentLength)) = k /\ FMod(progress, segmentLength) = 0
AtBoundary == probe.returned /\ ~probe.inside /\ probe.segment < segmentCountOf(probe.path)

\* On every path: at progress k/S the pose returned is within a rounding
\* error of waypoint k's or of the next waypoint's (the rotation up to a
\* whole turn), and waypoint k's exactly when the quotient of progress and
\* segment length is computed as exactly k with remainder 0; at the middle
\* of segment k every position component lies between the components of the
\* segment's two waypoints, the closing segment of a looping path included;
\* a looping path at progress 1 is at its first waypoint.
SegmentsOfPath ==
  probe.returned =>
    /\ probe.result.err = "none"
    /\ AtBoundary =>
         /\ \/ /\ NearVector(probe.result.position,
                             probe.path.waypoints[probe.segment + 1].position)
               /\ NearRotation(probe.result.rotation,
                               probe.path.waypoints[probe.segment + 1].rotation)
            \/ /\ NearVector(probe.result.position,
                             SegmentEnd(probe.path, probe.segment).position)
               /\ NearRotation(probe.result.rotation,
                               SegmentEnd(probe.path, probe.segment).rotation)
         /\ ExactQuotient(probe.progress,
                          FDiv(One, segmentCountOf(probe.path) * One), probe.segment)
              => probe.result = PoseOf(probe.path.waypoints[probe.segment + 1])
    /\ probe.inside =>
         BetweenVectors(probe.result.position,
                        SegmentStart(probe.path, probe.segment).position,
                        SegmentEnd(probe.path, probe.segment).position)
    /\ (probe.path.loop /\ probe.progress = One)
         => probe.result = PoseOf(probe.path.waypoints[1])

\* C23: a path of N >= 2 waypoints has N segments when looping and N - 1
\* otherwise, segment k from waypoints[k mod N] to waypoints[(k+1) mod N],
\* and at progress k/S the pose returned is exactly waypoint k's.
C23_WaypointsExact ==
  AtBoundary => probe.result = PoseOf(probe.path.waypoints[probe.segment + 1])

\* C23: interpolatePath has returned at progress 5/10 of the open path of
\* eleven waypoints with a pose that is a whole segment past waypoint 5: at
\* the end of the segment that starts there.
C23_Witness ==
  /\ AtBoundary
  /\ ~probe.path.loop
  /\ Len(probe.path.waypoints) = LongWaypoints
  /\ probe.segment = 5
  /\ NearVector(probe.result.position, probe.path.waypoints[7].position)
  /\ ~NearVector(probe.result.position, probe.path.waypoints[6].position)
\* interpolatePath has returned from the middle of the closing segment of a
\* looping path.
ClosingSegmentReached ==
  /\ probe.returned
  /\ probe.inside
  /\ probe.path.loop
  /\ probe.segment = Len(probe.path.waypoints) - 1
  /\ probe.result.position # probe.path.waypoints[1].position


\* The state and the current path go together.
CurrentPathOfState ==
  /\ simulation.state = "idle" => simulation.currentPathId = NoId
  /\ simulation.state = "playing"
       => probe.fn = "startSimulation" /\ simulation.currentPathId = probe.pathId
\* A step that changes currentPathId is a startSimulation call, a
\* stopSimulation call, or the frame that completes a path, which calls
\* stopSimulation.
CurrentPathChangedByStartOrStop ==
  simulation'.currentPathId # simulation.currentPathId
    => \/ last'.op = "startSimulation"
       \/ last'.op = "stopSimulation" /\ simulation'.currentPathId = NoId
       \/ last'.op = "frame" /\ last'.completed > 0 /\ simulation'.currentPathId = NoId

CompletedSimulation ==
  [state |-> "idle", progress |-> One, currentPathId |-> NoId, speed |-> One]
\* The frame that completes a path leaves the simulation stopped at progress 1.
CompletingFrame ==
  last'.op = "frame" /\ last'.completed > 0
    => /\ simulation.state = "playing"
       /\ simulation' = CompletedSimulation
       /\ \E i \in DOMAIN paths :
            paths[i].id = simulation.currentPathId /\ ~paths[i].loop
\* While the simulation stays idle, no frame and no action of the simulation
\* panel or the editor moves progress away from 1.
IdleKeepsProgress ==
  /\ simulation.state = "idle"
  /\ simulation.progress = One
  /\ simulation'.state = "idle"
  /\ last'.op \notin {"startSimulation", "stopSimulation", "setSimulationProgress"}
  => simulation'.progress = One

\* C25: the frame in which a path that does not loop completes calls
\* stopSimulation and then setSimulationProgress(1), so the frame ends with the
\* simulation idle, no current path and progress 1, and progress stays 1
\* while the simulation is idle, until startSimulation or stopSimulation.
C25_CompletionLeavesProgressOne == [][CompletingFrame /\ IdleKeepsProgress]_vars

\* C25: a path completed in an earlier frame and a later frame has run on
\* the stopped simulation, which still has progress 1.
C25_Witness ==
  /\ simulation = CompletedSimulation
  /\ completions > 0
  /\ last.op = "frame"
  /\ last.completed = 0


\* pauseSimulation changes the state field only, and nothing when paused.
PauseKeepsTheRest ==
  last'.op = "pauseSimulation"
    => /\ simulation'.state = "paused"
       /\ simulation'.progress = simulation.progress
       /\ simulation'.currentPathId = simulation.currentPathId
       /\ simulation'.speed = simulation.speed
       /\ simulation.state = "paused" => simulation' = simulation
\* A frame on a paused simulation leaves the simulation and every robot alone.
PausedFrame ==
  simulation.state = "paused" /\ last'.op = "frame"
    => /\ simulation' = simulation
       /\ last'.moved = NoId
       /\ filterRobots(objects') = filterRobots(objects)
\* Only startSimulation makes the simulation playing, from progress 0 at
\* speed 1.
OnlyStartPlays ==
  simulation.state # "playing" /\ simulation'.state = "playing"
    => /\ last'.op = "startSimulation"
       /\ simulation'.progress = 0
       /\ simulation'.speed = One

\* C26: pauseSimulation sets the state to paused and keeps progress, current
\* path and speed; pausing twice is pausing once; frames on a paused
\* simulation change neither progress nor a robot's pose; and a paused
\* simulation plays again only through startSimulation, which starts from
\* progress 0 at speed 1.
C26_PauseKeepsAndNothingResumes == [][PauseKeepsTheRest /\ PausedFrame /\ OnlyStartPlays]_vars

\* C26: a simulation paused under way, at twice the speed, has been paused
\* again and a frame has run on it.
C26_Witness ==
  /\ simulation.state = "paused"
  /\ FLt(0, simulation.progress)
  /\ FLt(simulation.progress, One)
  /\ simulation.speed = 2 * One
  /\ simulation.currentPathId = "p1"
  /\ last.op = "frame"

\* The simulation plays on a path that does not loop, or on one that does.
PlayingOpenPath == simulation.state = "playing" /\ ~paths[1].loop
OnLoopingPath == paths[1].loop
LoopKeepsPlaying ==
  /\ simulation.state = "playing"
  /\ ~FLt(simulation.progress, 0)
  /\ FLt(simulation.progress, One)

\* C28: left to the frames, a simulation playing at a positive speed on a
\* path that does not loop, with a robot assigned, eventually becomes idle,
\* and one playing on a looping path stays playing with progress in [0, 1).
C28_OpenPathEndsLoopRuns ==
  /\ PlayingOpenPath ~> simulation.state = "idle"
  /\ [](OnLoopingPath => LoopKeepsPlaying)

\* C28: a path of four waypoints played at half speed has completed, after
\* at least six frames.
C28_Witness ==
  /\ simulation.state = "idle"
  /\ completions > 0
  /\ Len(paths[1].waypoints) = 4
  /\ last.op = "frame"
  /\ last.moved = "r1"
  /\ last.completed > 0
\* A looping path has wrapped around: the robot is under way after it had
\* passed the last waypoint.
LoopWrapped ==
  /\ OnLoopingPath
  /\ simulation.state = "playing"
  /\ last.op = "frame"
  /\ simulation.speed = 2 * One
  /\ FLt(0, simulation.progress)
  /\ FLt(simulation.progress, Lit(1, 4))

\* Objects i and j of the list are a robot of unit scale with the default
\* end-effector offset and its gripper of unit scale, at the robot's
\* end-effector position.
FactoryPair(objs, i, j) ==
  /\ objs[i].type = "robot" /\ objs[j].type = "gripper"
  /\ objs[i].scale = UnitScale /\ objs[j].scale = UnitScale
  /\ objs[i].properties.gripperId = objs[j].id
  /\ objs[j].properties.parentRobotId = objs[i].id
  /\ objs[i].properties.endEffectorOffset = << DefaultEndEffectorOffset >>
  /\ objs[j].position = calculateEndEffectorPosition(objs[i])
Reported(id) == \E k \in DOMAIN collisions : collisions[k] = id
PairCollides ==
  \A i, j \in DOMAIN objects :
    FactoryPair(objects, i, j)
      => /\ checkObjectCollision(objects[i], objects[j])
         /\ last'.op = "frame" => Reported(objects[i].id)' /\ Reported(objects[j].id)'

TrailingGripperReached ==
  /\ last.op = "frame"
  /\ Len(objects) = 2
  /\ ~FactoryPair(objects, 1, 2)
  /\ collisions = << >>
  /\ frames >= 2

\* The simulation plays on a path the store does not have, or one no robot
\* is assigned to.
PathMissing == \A k \in DOMAIN paths : paths[k].id # simulation.currentPathId
RobotMissing ==
  \A i \in DOMAIN objects :
    ~(objects[i].type = "robot" /\ objects[i].properties.pathId = simulation.currentPathId)
Dangling == simulation.state = "playing" /\ (PathMissing \/ RobotMissing)
\* A removal leaves the simulation as it is.
RemovalKeepsSimulation ==
  Len(paths') < Len(paths) \/ Len(objects') < Len(objects) => simulation' = simulation
\* A frame on a dangling reference: the movement callback returns without a
\* write, so the simulation and every robot are after the frame what they
\* were before it.
DanglingFrame ==
  Dangling /\ last'.op = "frame"
    => /\ simulation' = simulation
       /\ last'.moved = NoId
       /\ filterRobots(objects') = filterRobots(objects)
       /\ \A delta \in DeltaSet :
            RobotMovementSystem(objects, paths, simulation, delta) = SkipFrame(objects, simulation)
\* Only the user ends it.
DanglingUntilUser ==
  Dangling /\ simulation' # simulation
    => last'.op \in {"startSimulation", "stopSimulation", "pauseSimulation",
                     "setSimulationProgress", "other"}

RobotRemovedReached ==
  /\ simulation.state = "playing"
  /\ simulation.currentPathId = "p1"
  /\ paths # << >>
  /\ Len(objects) = 3
  /\ last.op = "frame"

\* The places in the list of the robots assigned to the current path, and
\* the first of them (0: none).
AssignedRobots ==
  {i \in DOMAIN objects :
     objects[i].type = "robot" /\ objects[i].properties.pathId = simulation.currentPathId}
FirstAssigned ==
  IF AssignedRobots = {} THEN 0
  ELSE CHOOSE i \in AssignedRobots : \A j \in AssignedRobots : i <= j
\* What the path step of a frame does to the list: it keeps every object but
\* the first assigned robot, which gets the pose interpolatePath returns at
\* the new progress, and the frame's later callbacks keep every robot as the
\* path step left it.
PathStepMovesFirst(mv) ==
  /\ Len(mv.objects) = Len(objects)
  /\ \A i \in DOMAIN objects : i # FirstAssigned => mv.objects[i] = objects[i]
  /\ mv.moved # NoId
       => /\ FirstAssigned # 0
          /\ mv.moved = objects[FirstAssigned].id
          /\ \E k \in DOMAIN paths :
               /\ paths[k].id = simulation.currentPathId
               /\ LET pose == interpolatePath(paths[k], mv.simulation.progress) IN
                  mv.objects[FirstAssigned] =
                    [objects[FirstAssigned] EXCEPT !.position = pose.position,
                                                   !.rotation = pose.rotation]
  /\ FirstAssigned = 0
       => mv.objects = objects /\ mv.simulation = simulation /\ simulation' = simulation
  /\ \A i \in DOMAIN objects : objects[i].type = "robot" => objects'[i] = mv.objects[i]
PlayingFrame ==
  simulation.state = "playing" /\ simulation.currentPathId # NoId /\ last'.op = "frame"

NoRobotFrameReached ==
  /\ last.op = "frame"
  /\ simulation.state = "playing"
  /\ simulation.currentPathId = "p1"
  /\ Len(objects) = 3


\* C20: after calls of updateObject the camera c1 has a new rotation and
\* its first position, and the obstacle before it in the list is as it
\* was.
C20_Witness ==
  /\ last.op = "updateObject"
  /\ Len(objects) = 3
  /\ objects[1] = Obstacle1
  /\ objects[2].id = "c1"
  /\ objects[2].rotation = createVector3(0, Half, 0)
  /\ objects[2].position = Camera1.position
  /\ objects[2].properties = Camera1.properties

TypeOK ==
  /\ simulation.state \in {"idle", "playing", "paused"}
  /\ Len(paths) <= 1

====
